---- MODULE Spec2Model ----
(***************************************************************************)
(* MarkdownParser (markdown.js): the Markdown -> HTML converter of the     *)
(* editor, modelled as a state machine whose steps are the phases of       *)
(* parse().  A string is a sequence of one-character strings; the          *)
(* placeholder sentinel \x00 is the character NUL.  Every regular          *)
(* expression of the source is a matcher operator that returns the index   *)
(* just past the match that starts at position i, or 0 when the            *)
(* expression does not match there.                                        *)
(***************************************************************************)
EXTENDS Integers, Sequences, FiniteSets, TLC

VARIABLES
    md,          \* the argument of parse()
    resolver,    \* this.resolveImagePath: "identity" (option omitted) or "prefix"
    pc,          \* the statement of parse() that runs next
    html,        \* the working string html; the returned string once pc = "done"
    codeBlocks,  \* extracted fenced blocks, records [lang, code]
    inlineCode,  \* extracted inline code spans
    mathBlocks,  \* extracted display math
    inlineMath,  \* extracted inline math
    htmlBlocks,  \* extracted block-level raw HTML
    inlineHtml,  \* extracted inline raw HTML tags
    lines,       \* _parseTables: the lines being scanned
    i,           \* _parseTables: the index of the line scanned next (0-based)
    result,      \* _parseTables: the lines emitted so far
    calls,       \* the arguments resolveImagePath was called with, in order
    currentMd,     \* Preview._currentMd
    container,     \* Preview.container: its div.mermaid elements, in document order
    mermaidCache,  \* Preview._mermaidCache: the hash stored under mermaid-0, mermaid-1, ...
    mermaidTimer,  \* Preview._mermaidTimer: TRUE while the debounce timeout is pending
    renders,       \* the (id, source) pairs the latest timer callback gave to mermaid.render
    value,           \* Editor.textarea.value
    selectionStart,  \* Editor.textarea.selectionStart
    selectionEnd,    \* Editor.textarea.selectionEnd
    undoStack,       \* Editor.undoStack: records [value, selectionStart, selectionEnd]
    redoStack,       \* Editor.redoStack
    lastSnapshot,    \* Editor._lastSnapshot
    snapshotTimer,   \* Editor._snapshotTimer: TRUE while the 500 ms timeout is pending
    isOpen,          \* FindReplace.isOpen
    query,           \* FindReplace.query
    replacement,     \* FindReplace.replacement
    matchCase,       \* FindReplace.matchCase
    wholeWord,       \* FindReplace.wholeWord
    useRegex,        \* FindReplace.useRegex
    matches,         \* FindReplace.matches: records [start, end], 0-based offsets
    currentIdx,      \* FindReplace.currentIdx
    searchTimer,     \* FindReplace._searchTimer: TRUE while the 80 ms timeout is pending
    activeFilePath,  \* Workspace.activeFilePath, <<>> for null
    contextTarget,   \* Workspace._contextTarget.path, <<>> while there is no target
    clipboard,       \* the text last given to navigator.clipboard.writeText
    resolvedPath     \* the path Preview._resolveImage last looked up in the file manager

\* the fields of the Editor and of the FindReplace bar on its textarea
editor == <<value, selectionStart, selectionEnd, undoStack, redoStack, lastSnapshot,
            snapshotTimer>>

finder == <<isOpen, query, replacement, matchCase, wholeWord, useRegex, matches,
            currentIdx, searchTimer>>

\* the fields of the Workspace panel and what its path functions produced
explorer == <<activeFilePath, contextTarget, clipboard, resolvedPath>>

\* the fields of the Preview that owns the parser, and the panels beside it
view == <<currentMd, container, mermaidCache, mermaidTimer, renders, editor, finder,
          explorer>>

vars == <<md, resolver, pc, html, codeBlocks, inlineCode, mathBlocks, inlineMath,
          htmlBlocks, inlineHtml, lines, i, result, calls, view>>

-----------------------------------------------------------------------------
(* Characters and character classes of the regular expressions.            *)

NUL == "\\x00"

\* the backtick character (the module language has no literal for it)
Backtick == "\\x60"

Digit == {"0", "1", "2", "3", "4", "5", "6", "7", "8", "9"}

LowerCase == {"a", "b", "c", "d", "e", "f", "g", "h", "i", "j", "k", "l", "m",
              "n", "o", "p", "q", "r", "s", "t", "u", "v", "w", "x", "y", "z"}

UpperCase == {"A", "B", "C", "D", "E", "F", "G", "H", "I", "J", "K", "L", "M",
              "N", "O", "P", "Q", "R", "S", "T", "U", "V", "W", "X", "Y", "Z"}

\* \w
WordChar == LowerCase \cup UpperCase \cup Digit \cup {"_"}

\* \s
Space == {" ", "\t", "\n", "\r", "\f"}

\* the line terminators: what the dot excludes, what ^ and $ look at under /m
LineTerminator == {"\n", "\r"}

\* the /i flag of the paragraph test
ToLower(c) ==
    CASE c = "A" -> "a" [] c = "B" -> "b" [] c = "C" -> "c" [] c = "D" -> "d"
      [] c = "E" -> "e" [] c = "F" -> "f" [] c = "G" -> "g" [] c = "H" -> "h"
      [] c = "I" -> "i" [] c = "J" -> "j" [] c = "K" -> "k" [] c = "L" -> "l"
      [] c = "M" -> "m" [] c = "N" -> "n" [] c = "O" -> "o" [] c = "P" -> "p"
      [] c = "Q" -> "q" [] c = "R" -> "r" [] c = "S" -> "s" [] c = "T" -> "t"
      [] c = "U" -> "u" [] c = "V" -> "v" [] c = "W" -> "w" [] c = "X" -> "x"
      [] c = "Y" -> "y" [] c = "Z" -> "z" [] OTHER -> c

-----------------------------------------------------------------------------
(* String primitives of the runtime the source relies on.                  *)

\* s.substring(a - 1, b): the characters a..b, empty when b < a
Sub(s, a, b) == IF b < a THEN <<>> ELSE SubSeq(s, a, b)

\* s.startsWith(p, k - 1)
StartsWithAt(s, k, p) ==
    /\ k >= 1
    /\ k + Len(p) - 1 <= Len(s)
    /\ SubSeq(s, k, k + Len(p) - 1) = p

\* the first index >= k whose character is in S, Len(s) + 1 when there is none
FirstIn(s, k, S) ==
    IF \E j \in k..Len(s) : s[j] \in S
    THEN CHOOSE j \in k..Len(s) : s[j] \in S /\ \A m \in k..(j - 1) : s[m] \notin S
    ELSE Len(s) + 1

\* the first index >= k whose character is not in S, Len(s) + 1 when there is none
FirstNotIn(s, k, S) ==
    IF \E j \in k..Len(s) : s[j] \notin S
    THEN CHOOSE j \in k..Len(s) : s[j] \notin S /\ \A m \in k..(j - 1) : s[m] \in S
    ELSE Len(s) + 1

\* the last index in a..b whose character is in S, 0 when there is none
LastIn(s, a, b, S) ==
    IF \E j \in a..b : s[j] \in S
    THEN CHOOSE j \in a..b : s[j] \in S /\ \A m \in (j + 1)..b : s[m] \notin S
    ELSE 0

\* the last index in a..b whose character is not in S, 0 when there is none
LastNotIn(s, a, b, S) ==
    IF \E j \in a..b : s[j] \notin S
    THEN CHOOSE j \in a..b : s[j] \notin S /\ \A m \in (j + 1)..b : s[m] \in S
    ELSE 0

\* p occurs in s at index j
OccursAt(s, p, j) == SubSeq(s, j, j + Len(p) - 1) = p

\* s.indexOf(p, k - 1) + 1: the first index >= k where p starts, 0 when there is none
IndexOf(s, p, k) ==
    LET last == Len(s) - Len(p) + 1
    IN  IF \E j \in k..last : OccursAt(s, p, j)
        THEN CHOOSE j \in k..last :
                 OccursAt(s, p, j) /\ \A m \in k..(j - 1) : ~OccursAt(s, p, m)
        ELSE 0

Contains(s, p) == IndexOf(s, p, 1) # 0

\* s.trimEnd()
TrimEnd(s) == Sub(s, 1, LastNotIn(s, 1, Len(s), Space))

\* s.trimStart(), s.trim()
TrimStart(s) == Sub(s, FirstNotIn(s, 1, Space), Len(s))

Trim(s) == TrimStart(TrimEnd(s))

\* s.split(sep), sep not empty
RECURSIVE SplitFrom(_, _, _)
SplitFrom(s, sep, k) ==
    LET j == IndexOf(s, sep, k)
    IN  IF j = 0 THEN <<Sub(s, k, Len(s))>>
        ELSE <<Sub(s, k, j - 1)>> \o SplitFrom(s, sep, j + Len(sep))

Split(s, sep) == SplitFrom(s, sep, 1)

\* parts.join(sep)
RECURSIVE JoinFrom(_, _, _)
JoinFrom(parts, sep, k) ==
    IF k > Len(parts) THEN <<>>
    ELSE IF k = Len(parts) THEN parts[k]
    ELSE parts[k] \o sep \o JoinFrom(parts, sep, k + 1)

Join(parts, sep) == JoinFrom(parts, sep, 1)

\* s.replace(/p/g, r) for a literal p and a replacement r without $ patterns
RECURSIVE ReplaceAllFrom(_, _, _, _)
ReplaceAllFrom(s, p, r, k) ==
    LET j == IndexOf(s, p, k)
    IN  IF j = 0 THEN Sub(s, k, Len(s))
        ELSE Sub(s, k, j - 1) \o r \o ReplaceAllFrom(s, p, r, j + Len(p))

ReplaceAll(s, p, r) == ReplaceAllFrom(s, p, r, 1)

\* the decimal digits of n, as a template literal prints them
RECURSIVE Decimal(_)
Decimal(n) ==
    LET d == CHOOSE c \in Digit :
                 c = CASE n % 10 = 0 -> "0" [] n % 10 = 1 -> "1" [] n % 10 = 2 -> "2"
                       [] n % 10 = 3 -> "3" [] n % 10 = 4 -> "4" [] n % 10 = 5 -> "5"
                       [] n % 10 = 6 -> "6" [] n % 10 = 7 -> "7" [] n % 10 = 8 -> "8"
                       [] OTHER -> "9"
    IN  IF n < 10 THEN <<d>> ELSE Decimal(n \div 10) \o <<d>>

\* GetSubstitution of String.prototype.replace for a string pattern (no captures):
\* dollar dollar is one dollar, dollar ampersand the matched text, dollar backtick
\* the text before the match, dollar apostrophe the text after it
IsPattern(r, j) == r[j] = "$" /\ j < Len(r) /\ r[j + 1] \in {"$", "&", Backtick, "'"}

RECURSIVE Substitute(_, _, _, _, _)
Substitute(r, k, matched, before, after) ==
    IF \E j \in k..Len(r) : IsPattern(r, j)
    THEN LET j == CHOOSE j \in k..Len(r) :
                      IsPattern(r, j) /\ \A m \in k..(j - 1) : ~IsPattern(r, m)
         IN  Sub(r, k, j - 1)
             \o (CASE r[j + 1] = "$" -> <<"$">>
                   [] r[j + 1] = "&" -> matched
                   [] r[j + 1] = Backtick -> before
                   [] OTHER -> after)
             \o Substitute(r, j + 2, matched, before, after)
    ELSE Sub(r, k, Len(r))

\* s.replace(p, r) for a string p: the first occurrence only, r a replacement pattern
ReplaceFirst(s, p, r) ==
    LET j == IndexOf(s, p, 1)
    IN  IF j = 0 THEN s
        ELSE LET before == Sub(s, 1, j - 1)
                 after == Sub(s, j + Len(p), Len(s))
             IN  before \o Substitute(r, 1, p, before, after) \o after

-----------------------------------------------------------------------------
(* Phase 1 of parse(): the regular expressions that extract protected      *)
(* spans, and the placeholder tokens that stand in for them.               *)

CODEBLOCK == <<"C", "O", "D", "E", "B", "L", "O", "C", "K">>
INLINECODE == <<"I", "N", "L", "I", "N", "E", "C", "O", "D", "E">>
MATHBLOCK == <<"M", "A", "T", "H", "B", "L", "O", "C", "K">>
INLINEMATH == <<"I", "N", "L", "I", "N", "E", "M", "A", "T", "H">>
HTMLBLOCK == <<"H", "T", "M", "L", "B", "L", "O", "C", "K">>
INLINEHTML == <<"I", "N", "L", "I", "N", "E", "H", "T", "M", "L">>

\* a template literal without the closing sentinel
PlaceholderOpenEnded(kind, n) == <<NUL>> \o kind \o Decimal(n)

\* the template literal \x00KIND${n}\x00
Placeholder(kind, n) == <<NUL>> \o kind \o Decimal(n) \o <<NUL>>

ESCAPED_DOLLAR == <<NUL, "E", "S", "C", "A", "P", "E", "D", "D", "O", "L", "L", "A", "R", NUL>>

Fence == <<Backtick, Backtick, Backtick>>

\* the tag names of the block-level raw HTML expression
HtmlBlockTags ==
    {<<"d", "i", "v">>, <<"s", "e", "c", "t", "i", "o", "n">>, <<"a", "r", "t", "i", "c", "l", "e">>, <<"a", "s", "i", "d", "e">>, <<"h", "e", "a", "d", "e", "r">>, <<"f", "o", "o", "t", "e", "r">>, <<"n", "a", "v">>,
     <<"m", "a", "i", "n">>, <<"d", "e", "t", "a", "i", "l", "s">>, <<"s", "u", "m", "m", "a", "r", "y">>, <<"f", "i", "g", "u", "r", "e">>, <<"f", "i", "g", "c", "a", "p", "t", "i", "o", "n">>, <<"p">>, <<"u", "l">>,
     <<"o", "l">>, <<"l", "i">>, <<"d", "l">>, <<"d", "t">>, <<"d", "d">>, <<"t", "a", "b", "l", "e">>, <<"t", "h", "e", "a", "d">>, <<"t", "b", "o", "d", "y">>,
     <<"t", "f", "o", "o", "t">>, <<"t", "r">>, <<"t", "h">>, <<"t", "d">>, <<"c", "a", "p", "t", "i", "o", "n">>, <<"c", "o", "l", "g", "r", "o", "u", "p">>, <<"c", "o", "l">>,
     <<"f", "o", "r", "m">>, <<"f", "i", "e", "l", "d", "s", "e", "t">>, <<"l", "e", "g", "e", "n", "d">>, <<"s", "e", "l", "e", "c", "t">>, <<"o", "p", "t", "i", "o", "n">>, <<"l", "a", "b", "e", "l">>,
     <<"i", "n", "p", "u", "t">>, <<"b", "u", "t", "t", "o", "n">>, <<"t", "e", "x", "t", "a", "r", "e", "a">>, <<"o", "u", "t", "p", "u", "t">>, <<"p", "r", "o", "g", "r", "e", "s", "s">>, <<"m", "e", "t", "e", "r">>,
     <<"v", "i", "d", "e", "o">>, <<"a", "u", "d", "i", "o">>, <<"s", "o", "u", "r", "c", "e">>, <<"p", "i", "c", "t", "u", "r", "e">>, <<"c", "a", "n", "v", "a", "s">>, <<"m", "a", "p">>, <<"a", "r", "e", "a">>,
     <<"s", "v", "g">>, <<"m", "a", "t", "h">>, <<"d", "e", "l">>, <<"i", "n", "s">>, <<"s", "u", "b">>, <<"s", "u", "p">>, <<"m", "a", "r", "k">>, <<"a", "b", "b", "r">>,
     <<"t", "i", "m", "e">>, <<"c", "i", "t", "e">>, <<"d", "f", "n">>, <<"r", "u", "b", "y">>, <<"r", "t">>, <<"r", "p">>, <<"b", "d", "i">>, <<"b", "d", "o">>,
     <<"w", "b", "r">>, <<"h", "r">>, <<"b", "r">>, <<"i", "m", "g">>, <<"a">>, <<"e", "m">>, <<"s", "t", "r", "o", "n", "g">>, <<"s", "m", "a", "l", "l">>,
     <<"s">>, <<"u">>, <<"b">>, <<"i">>, <<"s", "p", "a", "n">>, <<"b", "l", "o", "c", "k", "q", "u", "o", "t", "e">>, <<"p", "r", "e">>, <<"c", "o", "d", "e">>}

\* ^ under the /m flag
AtLineStart(s, k) == k = 1 \/ s[k - 1] \in LineTerminator

\* /```(\w*)\n([\s\S]*?)```/ at k: the language tag ends at the first non-word
\* character, which must be the newline; the body ends at the nearest closing fence
FenceLangEnd(s, k) == FirstNotIn(s, k + 3, WordChar)

FenceMatch(s, k) ==
    IF ~StartsWithAt(s, k, Fence) THEN 0
    ELSE LET l == FenceLangEnd(s, k)
         IN  IF l > Len(s) \/ s[l] # "\n" THEN 0
             ELSE LET c == IndexOf(s, Fence, l + 1)
                  IN  IF c = 0 THEN 0 ELSE c + 3

\* the object pushed on codeBlocks: lang, and code.trimEnd()
FenceCapture(s, k, e) ==
    LET l == FenceLangEnd(s, k)
    IN  [lang |-> Sub(s, k + 3, l - 1), code |-> TrimEnd(Sub(s, l + 1, e - 4))]

\* an inline code expression that stops at an exclamation mark
InlineCodeMatchNoBang(s, k) ==
    IF s[k] # Backtick THEN 0
    ELSE LET j == FirstIn(s, k + 1, {Backtick, "\n", "!"})
         IN  IF j > k + 1 /\ j <= Len(s) /\ s[j] = Backtick THEN j + 1 ELSE 0

\* /`([^`\n]+)`/ at k
InlineCodeMatch(s, k) ==
    IF s[k] # Backtick THEN 0
    ELSE LET j == FirstIn(s, k + 1, {Backtick, "\n"})
         IN  IF j > k + 1 /\ j <= Len(s) /\ s[j] = Backtick THEN j + 1 ELSE 0

\* /\$\$([\s\S]+?)\$\$/ at k: at least one character, then the nearest $$
MathBlockMatch(s, k) ==
    IF ~StartsWithAt(s, k, <<"$", "$">>) THEN 0
    ELSE LET c == IndexOf(s, <<"$", "$">>, k + 3)
         IN  IF c = 0 THEN 0 ELSE c + 2

\* an inline math expression whose span may run over the end of a line
InlineMathMatchAcrossLines(s, k) ==
    IF s[k] # "$" THEN 0
    ELSE LET j == FirstIn(s, k + 1, {"$"})
         IN  IF j > k + 1 /\ j <= Len(s) THEN j + 1 ELSE 0

\* /\$([^$\n]+?)\$/ at k
InlineMathMatch(s, k) ==
    IF s[k] # "$" THEN 0
    ELSE LET j == FirstIn(s, k + 1, {"$", "\n"})
         IN  IF j > k + 1 /\ j <= Len(s) /\ s[j] = "$" THEN j + 1 ELSE 0

\* /^(<(?:div|...|code)[\s>][\s\S]*?)$/m at k: a listed tag name followed by
\* white space or >, then lazily up to the nearest end of a line
HtmlBlockMatch(s, k) ==
    IF ~(AtLineStart(s, k) /\ s[k] = "<") THEN 0
    ELSE LET j == FirstIn(s, k + 1, Space \cup {">"})
         IN  IF j <= Len(s) /\ Sub(s, k + 1, j - 1) \in HtmlBlockTags
             THEN FirstIn(s, j + 1, LineTerminator)
             ELSE 0

\* /<(\/?)(\w+)([^>]*)>/ at k
InlineHtmlMatch(s, k) ==
    IF s[k] # "<" THEN 0
    ELSE LET n == IF k + 1 <= Len(s) /\ s[k + 1] = "/" THEN k + 2 ELSE k + 1
         IN  IF n > Len(s) \/ s[n] \notin WordChar THEN 0
             ELSE LET g == FirstIn(s, n + 1, {">"})
                  IN  IF g > Len(s) THEN 0 ELSE g + 1

\* _escapeHtml
EscapeChar(c) ==
    CASE c = "&" -> <<"&", "a", "m", "p", ";">>
      [] c = "<" -> <<"&", "l", "t", ";">>
      [] c = ">" -> <<"&", "g", "t", ";">>
      [] c = "\"" -> <<"&", "q", "u", "o", "t", ";">>
      [] OTHER -> <<c>>

\* the four replacements of _escapeHtml on the characters a..b of s
RECURSIVE EscapeRange(_, _, _)
EscapeRange(s, a, b) ==
    IF a > b THEN <<>>
    ELSE IF a = b THEN EscapeChar(s[a])
    ELSE EscapeRange(s, a, (a + b) \div 2) \o EscapeRange(s, (a + b) \div 2 + 1, b)

EscapeHtml(s) == EscapeRange(s, 1, Len(s))

\* _unescapeForAttr: four global replacements, one after the other
UnescapeForAttr(s) ==
    ReplaceAll(ReplaceAll(ReplaceAll(ReplaceAll(s, <<"&", "a", "m", "p", ";">>, <<"&">>),
               <<"&", "l", "t", ";">>, <<"<">>), <<"&", "g", "t", ";">>, <<">">>), <<"&", "q", "u", "o", "t", ";">>, <<"\"">>)

-----------------------------------------------------------------------------
(* Phase 3 of parse(): the block-level transforms.                         *)

NoLineTerminator(s) == FirstIn(s, 1, LineTerminator) > Len(s)

\* /^&gt;\s?(.*)$/ on one line: the captured text, or no match
BlockquoteLine(line) ==
    IF ~StartsWithAt(line, 1, <<"&", "g", "t", ";">>) THEN [ok |-> FALSE, text |-> <<>>]
    ELSE LET r == Sub(line, 5, Len(line))
         IN  IF r # <<>> /\ r[1] \in Space /\ NoLineTerminator(Sub(r, 2, Len(r)))
             THEN [ok |-> TRUE, text |-> Sub(r, 2, Len(r))]
             ELSE IF NoLineTerminator(r) THEN [ok |-> TRUE, text |-> r]
             ELSE [ok |-> FALSE, text |-> <<>>]

\* flushBlockquote
FlushBlockquote(st) ==
    [result |-> IF Len(st.bqLines) > 0
                THEN Append(st.result, <<"<", "b", "l", "o", "c", "k", "q", "u", "o", "t", "e", ">", "<", "p", ">">> \o Join(st.bqLines, <<"\n">>)
                                       \o <<"<", "/", "p", ">", "<", "/", "b", "l", "o", "c", "k", "q", "u", "o", "t", "e", ">">>)
                ELSE st.result,
     inBlockquote |-> FALSE,
     bqLines |-> <<>>]

\* the for loop of _parseBlockquotes, from line k on
RECURSIVE BlockquoteLoop(_, _, _)
BlockquoteLoop(ls, k, st) ==
    IF k > Len(ls) THEN st
    ELSE LET m == BlockquoteLine(ls[k])
         IN  IF m.ok
             THEN BlockquoteLoop(ls, k + 1,
                      [st EXCEPT !.inBlockquote = TRUE, !.bqLines = Append(@, m.text)])
             ELSE LET f == IF st.inBlockquote THEN FlushBlockquote(st) ELSE st
                  IN  BlockquoteLoop(ls, k + 1, [f EXCEPT !.result = Append(@, ls[k])])

ParseBlockquotes(s) ==
    LET st == BlockquoteLoop(Split(s, <<"\n">>), 1,
                  [result |-> <<>>, inBlockquote |-> FALSE, bqLines |-> <<>>])
        f == IF st.inBlockquote THEN FlushBlockquote(st) ELSE st
    IN  Join(f.result, <<"\n">>)

\* /^\|(.+)\|$/.test(line.trim())
RowShape(t) ==
    /\ Len(t) >= 3
    /\ t[1] = "|"
    /\ t[Len(t)] = "|"
    /\ NoLineTerminator(Sub(t, 2, Len(t) - 1))

IsTableRow(line) == RowShape(Trim(line))

\* /^\|[\s\-:|]+\|$/.test(line.trim())
SeparatorShape(t) ==
    /\ Len(t) >= 3
    /\ t[1] = "|"
    /\ t[Len(t)] = "|"
    /\ \A k \in 2..(Len(t) - 1) : t[k] \in Space \cup {"-", ":", "|"}

IsTableSeparator(line) == SeparatorShape(Trim(line))

\* _parseTableRow
StripFirstPipe(t) == IF t # <<>> /\ t[1] = "|" THEN Sub(t, 2, Len(t)) ELSE t

StripLastPipe(t) == IF t # <<>> /\ t[Len(t)] = "|" THEN Sub(t, 1, Len(t) - 1) ELSE t

ParseTableRow(line) == Split(StripLastPipe(StripFirstPipe(Trim(line))), <<"|">>)

AllDashes(c, a, b) == a <= b /\ \A k \in a..b : c[k] = "-"

\* an alignment read from the colons alone, the trailing one first
AlignmentRightFirst(c) ==
    IF Len(c) >= 2 /\ c[Len(c)] = ":" THEN <<"r", "i", "g", "h", "t">>
    ELSE IF Len(c) >= 2 /\ c[1] = ":" THEN <<"l", "e", "f", "t">>
    ELSE <<>>

\* the three tests of _parseTableAlignments on one trimmed cell
Alignment(c) ==
    IF Len(c) >= 3 /\ c[1] = ":" /\ c[Len(c)] = ":" /\ AllDashes(c, 2, Len(c) - 1)
    THEN <<"c", "e", "n", "t", "e", "r">>
    ELSE IF Len(c) >= 2 /\ c[Len(c)] = ":" /\ AllDashes(c, 1, Len(c) - 1)
    THEN <<"r", "i", "g", "h", "t">>
    ELSE IF Len(c) >= 2 /\ c[1] = ":" /\ AllDashes(c, 2, Len(c))
    THEN <<"l", "e", "f", "t">>
    ELSE <<>>

\* _parseTableAlignments
Alignments(cells) == [k \in 1..Len(cells) |-> Alignment(Trim(cells[k]))]

ParseTableAlignments(line) == Alignments(ParseTableRow(line))

\* the forEach over the cells of one row: <th style=...>cell</th> or <td ...>
RECURSIVE TableCells(_, _, _, _)
TableCells(cells, alignments, tag, k) ==
    IF k > Len(cells) THEN <<>>
    ELSE LET align == IF k <= Len(alignments) /\ alignments[k] # <<>>
                      THEN <<" ", "s", "t", "y", "l", "e", "=", "\"", "t", "e", "x", "t", "-", "a", "l", "i", "g", "n", ":">> \o alignments[k] \o <<"\"">>
                      ELSE <<>>
         IN  <<"<">> \o tag \o align \o <<">">> \o Trim(cells[k])
             \o <<"<", "/">> \o tag \o <<">">>
             \o TableCells(cells, alignments, tag, k + 1)

\* the inner while loop of _parseTables: the data rows from line k (1-based) on
RECURSIVE TableBody(_, _, _)
TableBody(ls, alignments, k) ==
    IF k <= Len(ls) /\ IsTableRow(ls[k])
    THEN LET rest == TableBody(ls, alignments, k + 1)
         IN  [html |-> <<"<", "t", "r", ">">> \o TableCells(ParseTableRow(ls[k]), alignments, <<"t", "d">>, 1)
                       \o <<"<", "/", "t", "r", ">">> \o rest.html,
              next |-> rest.next]
    ELSE [html |-> <<>>, next |-> k]

\* the condition of the if of _parseTables at the 0-based index n
IsTableStart(ls, n) ==
    /\ n + 1 < Len(ls)
    /\ IsTableRow(ls[n + 1])
    /\ IsTableSeparator(ls[n + 2])

\* the table that starts at the 0-based index n, given its alignments
TableHtml(ls, n, alignments) ==
    <<"<", "t", "a", "b", "l", "e", ">", "<", "t", "h", "e", "a", "d", ">", "<", "t", "r", ">">>
    \o TableCells(ParseTableRow(ls[n + 1]), alignments, <<"t", "h">>, 1)
    \o <<"<", "/", "t", "r", ">", "<", "/", "t", "h", "e", "a", "d", ">", "<", "t", "b", "o", "d", "y", ">">> \o TableBody(ls, alignments, n + 3).html
    \o <<"<", "/", "t", "b", "o", "d", "y", ">", "<", "/", "t", "a", "b", "l", "e", ">">>

\* one iteration of the outer while loop of _parseTables at the 0-based index n:
\* the line pushed on result
TablePush(ls, n) ==
    IF IsTableStart(ls, n)
    THEN TableHtml(ls, n, ParseTableAlignments(ls[n + 2]))
    ELSE ls[n + 1]

\* a scanner that stays on a line that starts no table
TableNextStuck(ls, n) ==
    IF IsTableStart(ls, n)
    THEN TableBody(ls, <<>>, n + 3).next - 1
    ELSE n

\* the same iteration: the index the loop continues at
TableNext(ls, n) ==
    IF IsTableStart(ls, n)
    THEN TableBody(ls, <<>>, n + 3).next - 1
    ELSE n + 1

\* /^(?:---|\*\*\*|___)\s*$/m at k: \s* gives characters back until $ matches
HorizontalRuleMatch(s, k) ==
    IF ~(AtLineStart(s, k) /\ \E r \in {<<"-", "-", "-">>, <<"*", "*", "*">>, <<"_", "_", "_">>} : StartsWithAt(s, k, r))
    THEN 0
    ELSE LET e == FirstNotIn(s, k + 3, Space)
         IN  IF e > Len(s) THEN e ELSE LastIn(s, k + 3, e - 1, LineTerminator)

Hashes(n) == [k \in 1..n |-> "#"]

\* /^#{n}\s+(.+)$/m at k: where the captured text starts, 0 when there is no match
HeadingTextStart(n, s, k) ==
    IF ~(AtLineStart(s, k) /\ StartsWithAt(s, k, Hashes(n))) THEN 0
    ELSE LET e == FirstNotIn(s, k + n, Space)
         IN  LastNotIn(s, k + n + 1, IF e > Len(s) THEN Len(s) ELSE e, LineTerminator)

HeadingMatch(n, s, k) ==
    LET t == HeadingTextStart(n, s, k)
    IN  IF t = 0 THEN 0 ELSE FirstIn(s, t, LineTerminator)

HeadingHtml(n, s, k, e) ==
    <<"<", "h">> \o Decimal(n) \o <<">">> \o Sub(s, HeadingTextStart(n, s, k), e - 1)
    \o <<"<", "/", "h">> \o Decimal(n) \o <<">">>

\* the three line expressions of _parseLists, tried in the order of the source:
\* /^(\s*)-\s+\[(x| )\]\s+(.*)$/, /^(\s*)[-*+]\s+(.*)$/, /^(\s*)\d+\.\s+(.*)$/
NoItem == [ok |-> FALSE]

CheckboxItem(line) ==
    LET lead == FirstNotIn(line, 1, Space)
        a == FirstNotIn(line, lead + 1, Space)
        b == FirstNotIn(line, a + 3, Space)
    IN  IF /\ lead <= Len(line) /\ line[lead] = "-"
           /\ a > lead + 1 /\ a + 2 <= Len(line)
           /\ line[a] = "[" /\ line[a + 1] \in {"x", " "} /\ line[a + 2] = "]"
           /\ b > a + 3
           /\ NoLineTerminator(Sub(line, b, Len(line)))
        THEN [ok |-> TRUE, indent |-> lead - 1, type |-> "ul",
              content |-> Sub(line, b, Len(line)),
              checked |-> IF line[a + 1] = "x" THEN "true" ELSE "false"]
        ELSE NoItem

UnorderedItem(line) ==
    LET lead == FirstNotIn(line, 1, Space)
        a == FirstNotIn(line, lead + 1, Space)
    IN  IF /\ lead <= Len(line) /\ line[lead] \in {"-", "*", "+"}
           /\ a > lead + 1
           /\ NoLineTerminator(Sub(line, a, Len(line)))
        THEN [ok |-> TRUE, indent |-> lead - 1, type |-> "ul",
              content |-> Sub(line, a, Len(line)), checked |-> "undefined"]
        ELSE NoItem

OrderedItem(line) ==
    LET lead == FirstNotIn(line, 1, Space)
        d == FirstNotIn(line, lead, Digit)
        a == FirstNotIn(line, d + 1, Space)
    IN  IF /\ d > lead /\ d <= Len(line) /\ line[d] = "."
           /\ a > d + 1
           /\ NoLineTerminator(Sub(line, a, Len(line)))
        THEN [ok |-> TRUE, indent |-> lead - 1, type |-> "ol",
              content |-> Sub(line, a, Len(line)), checked |-> "undefined"]
        ELSE NoItem

FirstMatch(a, b, c) == IF a.ok THEN a ELSE IF b.ok THEN b ELSE c

ListItem(line) == FirstMatch(CheckboxItem(line), UnorderedItem(line), OrderedItem(line))

OpenTag(type) == IF type = "ol" THEN <<"<", "o", "l", ">">> ELSE <<"<", "u", "l", ">">>

CloseTag(type) == IF type = "ol" THEN <<"<", "/", "o", "l", ">">> ELSE <<"<", "/", "u", "l", ">">>

\* a loop that also closes the list at the item's own indent
RECURSIVE PopDeeperOrEqual(_, _)
PopDeeperOrEqual(st, indent) ==
    IF /\ Len(st.stack) > 0
       /\ st.stack[Len(st.stack)].indent >= indent
    THEN PopDeeperOrEqual(
             [listHtml |-> st.listHtml \o CloseTag(st.stack[Len(st.stack)].type),
              stack |-> Sub(st.stack, 1, Len(st.stack) - 1)], indent)
    ELSE st

\* the while loop at the head of the item loop of flushList: pop and close every
\* open list whose indent is greater than the item's
RECURSIVE PopDeeper(_, _)
PopDeeper(st, indent) ==
    IF /\ Len(st.stack) > 0
       /\ st.stack[Len(st.stack)].indent >= indent
       /\ st.stack[Len(st.stack)].indent # indent
    THEN PopDeeper([listHtml |-> st.listHtml \o CloseTag(st.stack[Len(st.stack)].type),
                    stack |-> Sub(st.stack, 1, Len(st.stack) - 1)], indent)
    ELSE st

\* the if / else if after it: open a list, or close and reopen on a type change
OpenOrSwitch(st, item) ==
    LET n == Len(st.stack)
        entry == [indent |-> item.indent, type |-> item.type]
    IN  IF n = 0 \/ st.stack[n].indent < item.indent
        THEN [listHtml |-> st.listHtml \o OpenTag(item.type),
              stack |-> Append(st.stack, entry)]
        ELSE IF st.stack[n].type # item.type
        THEN [listHtml |-> st.listHtml \o CloseTag(st.stack[n].type) \o OpenTag(item.type),
              stack |-> Append(Sub(st.stack, 1, n - 1), entry)]
        ELSE st

\* the <li> of one item
ItemHtml(item) ==
    IF item.checked # "undefined"
    THEN <<"<", "l", "i", ">", "<", "i", "n", "p", "u", "t", " ", "t", "y", "p", "e", "=", "\"", "c", "h", "e", "c", "k", "b", "o", "x", "\"">>
         \o (IF item.checked = "true" THEN <<" ", "c", "h", "e", "c", "k", "e", "d", " ", "d", "i", "s", "a", "b", "l", "e", "d">> ELSE <<" ", "d", "i", "s", "a", "b", "l", "e", "d">>)
         \o <<">", " ">> \o item.content \o <<"<", "/", "l", "i", ">">>
    ELSE <<"<", "l", "i", ">">> \o item.content \o <<"<", "/", "l", "i", ">">>

\* the body of the item loop of flushList
FlushItem(st, item) ==
    LET t == OpenOrSwitch(PopDeeper(st, item.indent), item)
    IN  [t EXCEPT !.listHtml = @ \o ItemHtml(item)]

RECURSIVE FlushItems(_, _, _)
FlushItems(items, k, st) ==
    IF k > Len(items) THEN st ELSE FlushItems(items, k + 1, FlushItem(st, items[k]))

\* a final step that closes only the innermost open list
CloseTop(st) ==
    IF Len(st.stack) = 0 THEN st
    ELSE [listHtml |-> st.listHtml \o CloseTag(st.stack[Len(st.stack)].type),
          stack |-> Sub(st.stack, 1, Len(st.stack) - 1)]

\* the final while loop of flushList: close what is still open
RECURSIVE CloseAll(_)
CloseAll(st) ==
    IF Len(st.stack) = 0 THEN st
    ELSE CloseAll([listHtml |-> st.listHtml \o CloseTag(st.stack[Len(st.stack)].type),
                   stack |-> Sub(st.stack, 1, Len(st.stack) - 1)])

\* flushList: the HTML of one run of list items
FlushList(items) == CloseAll(FlushItems(items, 1, [listHtml |-> <<>>, stack |-> <<>>])).listHtml

\* the for loop of _parseLists, from line k on; acc = [result, listLines]
RECURSIVE ListLoop(_, _, _)
ListLoop(ls, k, acc) ==
    IF k > Len(ls) THEN acc
    ELSE LET item == ListItem(ls[k])
         IN  IF item.ok
             THEN ListLoop(ls, k + 1, [acc EXCEPT !.listLines = Append(@, item)])
             ELSE ListLoop(ls, k + 1,
                      [result |-> (IF acc.listLines = <<>> THEN acc.result
                                   ELSE Append(acc.result, FlushList(acc.listLines)))
                                  \o <<ls[k]>>,
                       listLines |-> <<>>])

\* the flushList() after the loop, and the join
FinishLists(acc) ==
    Join(IF acc.listLines = <<>> THEN acc.result
         ELSE Append(acc.result, FlushList(acc.listLines)), <<"\n">>)

ParseLists(s) ==
    FinishLists(ListLoop(Split(s, <<"\n">>), 1, [result |-> <<>>, listLines |-> <<>>]))

\* the tag names of the test of _parseParagraphs
ParagraphBlockTags ==
    {<<"h", "1">>, <<"h", "2">>, <<"h", "3">>, <<"h", "4">>, <<"h", "5">>, <<"h", "6">>, <<"u", "l">>, <<"o", "l">>, <<"l", "i">>,
     <<"b", "l", "o", "c", "k", "q", "u", "o", "t", "e">>, <<"p", "r", "e">>, <<"t", "a", "b", "l", "e">>, <<"t", "h", "e", "a", "d">>, <<"t", "b", "o", "d", "y">>, <<"t", "r">>, <<"t", "h">>,
     <<"t", "d">>, <<"h", "r">>, <<"d", "i", "v">>, <<"p">>, <<"s", "e", "c", "t", "i", "o", "n">>, <<"a", "r", "t", "i", "c", "l", "e">>, <<"a", "s", "i", "d", "e">>,
     <<"h", "e", "a", "d", "e", "r">>, <<"f", "o", "o", "t", "e", "r">>, <<"n", "a", "v">>, <<"m", "a", "i", "n">>, <<"d", "e", "t", "a", "i", "l", "s">>, <<"s", "u", "m", "m", "a", "r", "y">>,
     <<"f", "i", "g", "u", "r", "e">>, <<"f", "i", "g", "c", "a", "p", "t", "i", "o", "n">>}

\* /^<(h[1-6]|ul|...|figcaption)[\s>]/i.test(block)
StartsWithBlockTag(block) ==
    /\ block # <<>>
    /\ block[1] = "<"
    /\ LET j == FirstIn(block, 2, Space \cup {">"})
       IN  /\ j <= Len(block)
           /\ [k \in 1..(j - 2) |-> ToLower(block[k + 1])] \in ParagraphBlockTags

\* the callback of the map of _parseParagraphs
Paragraph(block0) ==
    LET block == Trim(block0)
    IN  IF block = <<>> THEN <<>>
        ELSE IF StartsWithBlockTag(block) THEN block
        ELSE IF block[1] = NUL THEN block
        ELSE <<"<", "p", ">">> \o block \o <<"<", "/", "p", ">">>

ParseParagraphs(s) ==
    LET blocks == Split(s, <<"\n", "\n">>)
    IN  Join([k \in 1..Len(blocks) |-> Paragraph(blocks[k])], <<"\n">>)

-----------------------------------------------------------------------------
(* Phase 4 of parse(): the inline transforms.                              *)

\* this.resolveImagePath: the identity when the option is omitted, else the
\* resolver p => "RESOLVED:" + p
ResolveImagePath(r, p) == IF r = "prefix" THEN <<"R", "E", "S", "O", "L", "V", "E", "D", ":">> \o p ELSE p

\* /!\[([^\]]*)\]\(([^)]+)\)/ at k: where alt ends (the ]) and where src ends (the ))
ImageAltEnd(s, k) == FirstIn(s, k + 2, {"]"})

ImageSrcEnd(s, k) == FirstIn(s, ImageAltEnd(s, k) + 2, {")"})

ImageMatch(s, k) ==
    LET c == ImageAltEnd(s, k)
        p == ImageSrcEnd(s, k)
    IN  IF /\ StartsWithAt(s, k, <<"!", "[">>)
           /\ c + 1 <= Len(s) /\ s[c + 1] = "("
           /\ p > c + 2 /\ p <= Len(s)
        THEN p + 1 ELSE 0

\* this._unescapeForAttr(src), the argument resolveImagePath is called with
ImageSrc(s, k) == UnescapeForAttr(Sub(s, ImageAltEnd(s, k) + 2, ImageSrcEnd(s, k) - 1))

\* the string the callback of _parseImages returns
ImageHtml(r, s, k) ==
    <<"<", "i", "m", "g", " ", "s", "r", "c", "=", "\"">> \o ResolveImagePath(r, ImageSrc(s, k))
    \o <<"\"", " ", "a", "l", "t", "=", "\"">> \o Sub(s, k + 2, ImageAltEnd(s, k) - 1) \o <<"\"", " ", "l", "o", "a", "d", "i", "n", "g", "=", "\"", "l", "a", "z", "y", "\"", ">">>

\* /\[([^\]]+)\]\(([^)]+)\)/ at k
LinkTextEnd(s, k) == FirstIn(s, k + 1, {"]"})

LinkHrefEnd(s, k) == FirstIn(s, LinkTextEnd(s, k) + 2, {")"})

LinkMatch(s, k) ==
    LET c == LinkTextEnd(s, k)
        p == LinkHrefEnd(s, k)
    IN  IF /\ s[k] = "["
           /\ c > k + 1
           /\ c + 1 <= Len(s) /\ s[c + 1] = "("
           /\ p > c + 2 /\ p <= Len(s)
        THEN p + 1 ELSE 0

\* the string the callback of _parseLinks returns
LinkHtml(s, k) ==
    LET c == LinkTextEnd(s, k)
    IN  <<"<", "a", " ", "h", "r", "e", "f", "=", "\"">> \o UnescapeForAttr(Sub(s, c + 2, LinkHrefEnd(s, k) - 1))
        \o <<"\"", " ", "t", "a", "r", "g", "e", "t", "=", "\"", "_", "b", "l", "a", "n", "k", "\"", " ", "r", "e", "l", "=", "\"", "n", "o", "o", "p", "e", "n", "e", "r", " ", "n", "o", "r", "e", "f", "e", "r", "r", "e", "r", "\"", ">">> \o Sub(s, k + 1, c - 1) \o <<"<", "/", "a", ">">>

\* /d(.+?)d/ at k for a delimiter d: at least one character, none a line
\* terminator, up to the nearest d
DelimitedMatch(d, s, k) ==
    IF ~StartsWithAt(s, k, d) THEN 0
    ELSE LET c == IndexOf(s, d, k + Len(d) + 1)
         IN  IF c # 0 /\ FirstIn(s, k + Len(d), LineTerminator) >= c THEN c + Len(d) ELSE 0

-----------------------------------------------------------------------------
(* html.replace(/re/g, ...): the one loop behind every global replacement.  *)

CodeBlockRe == [name |-> "codeBlock"]
InlineCodeRe == [name |-> "inlineCode"]
MathBlockRe == [name |-> "mathBlock"]
InlineMathRe == [name |-> "inlineMath"]
HtmlBlockRe == [name |-> "htmlBlock"]
InlineHtmlRe == [name |-> "inlineHtml"]
HorizontalRuleRe == [name |-> "hr"]
HeadingRe(n) == [name |-> "heading", n |-> n]
ImageRe(r) == [name |-> "image", resolver |-> r]
LinkRe == [name |-> "link"]
DelimitedRe(d, open, close) == [name |-> "delimited", d |-> d, open |-> open, close |-> close]

\* the index just past the match of re that starts at k, 0 when there is none
MatchEnd(re, s, k) ==
    CASE re.name = "codeBlock" -> FenceMatch(s, k)
      [] re.name = "inlineCode" -> InlineCodeMatch(s, k)
      [] re.name = "mathBlock" -> MathBlockMatch(s, k)
      [] re.name = "inlineMath" -> InlineMathMatch(s, k)
      [] re.name = "htmlBlock" -> HtmlBlockMatch(s, k)
      [] re.name = "inlineHtml" -> InlineHtmlMatch(s, k)
      [] re.name = "hr" -> HorizontalRuleMatch(s, k)
      [] re.name = "heading" -> HeadingMatch(re.n, s, k)
      [] re.name = "image" -> ImageMatch(s, k)
      [] re.name = "link" -> LinkMatch(s, k)
      [] re.name = "delimited" -> DelimitedMatch(re.d, s, k)

\* what the callback records for the match k..e-1: the text an extraction pushes
\* on its array, the argument _parseImages hands to resolveImagePath
Captured(re, s, k, e) ==
    CASE re.name = "codeBlock" -> FenceCapture(s, k, e)
      [] re.name = "inlineCode" -> Sub(s, k + 1, e - 2)
      [] re.name = "mathBlock" -> Trim(Sub(s, k + 2, e - 3))
      [] re.name = "inlineMath" -> Sub(s, k + 1, e - 2)
      [] re.name = "image" -> ImageSrc(s, k)
      [] OTHER -> Sub(s, k, e - 1)

\* what the match k..e-1 is replaced by; n matches were replaced before it
Replacement(re, s, k, e, n) ==
    CASE re.name = "codeBlock" -> Placeholder(CODEBLOCK, n)
      [] re.name = "inlineCode" -> Placeholder(INLINECODE, n)
      [] re.name = "mathBlock" -> Placeholder(MATHBLOCK, n)
      [] re.name = "inlineMath" -> Placeholder(INLINEMATH, n)
      [] re.name = "htmlBlock" -> Placeholder(HTMLBLOCK, n)
      [] re.name = "inlineHtml" -> Placeholder(INLINEHTML, n)
      [] re.name = "hr" -> <<"<", "h", "r", ">">>
      [] re.name = "heading" -> HeadingHtml(re.n, s, k, e)
      [] re.name = "image" -> ImageHtml(re.resolver, s, k)
      [] re.name = "link" -> LinkHtml(s, k)
      [] re.name = "delimited" ->
             re.open \o Sub(s, k + Len(re.d), e - Len(re.d) - 1) \o re.close

\* the match [start, end) that starts first among ms, start = 0 when ms is empty
Earliest(ms) ==
    IF ms = {} THEN [start |-> 0, end |-> 0]
    ELSE CHOOSE m \in ms : \A n \in ms : m.start <= n.start

\* the matches of re in s at or after k
MatchesAfter(re, s, k) ==
    {m \in {[start |-> j, end |-> MatchEnd(re, s, j)] : j \in k..Len(s)} : m.end # 0}

\* matches are taken left to right, each search starting where the previous
\* match ended
RECURSIVE MatchesFrom(_, _, _)
MatchesNext(re, s, m) ==
    IF m.start = 0 THEN <<>> ELSE <<m>> \o MatchesFrom(re, s, m.end)

MatchesFrom(re, s, k) == MatchesNext(re, s, Earliest(MatchesAfter(re, s, k)))

\* the text between the matches n - 1 and n of ms, the tail of s for n = Len(ms) + 1
Between(s, ms, n) ==
    Sub(s, IF n = 1 THEN 1 ELSE ms[n - 1].end,
           IF n > Len(ms) THEN Len(s) ELSE ms[n].start - 1)

\* the new string and what the callbacks recorded, for the matches ms
Rebuild(re, s, ms) ==
    [out |-> Join([n \in 1..(Len(ms) + 1) |->
                      IF n > Len(ms) THEN Between(s, ms, n)
                      ELSE Between(s, ms, n)
                           \o Replacement(re, s, ms[n].start, ms[n].end, n - 1)], <<>>),
     items |-> [n \in 1..Len(ms) |-> Captured(re, s, ms[n].start, ms[n].end)]]

\* html.replace(/re/g, ...)
Replace(re, s) == Rebuild(re, s, MatchesFrom(re, s, 1))

\* _parseHorizontalRules
ParseHorizontalRules(s) == Replace(HorizontalRuleRe, s).out

\* one statement of _parseHeadings
ParseHeading(n, s) == Replace(HeadingRe(n), s).out

\* _parseHeadings: six replacements, the longest prefix first
ParseHeadings(s) ==
    ParseHeading(1, ParseHeading(2, ParseHeading(3,
        ParseHeading(4, ParseHeading(5, ParseHeading(6, s))))))

\* html.replace(/d(.+?)d/g, open + '$1' + close)
ReplaceDelimited(d, open, close, s) == Replace(DelimitedRe(d, open, close), s).out

\* _parseBoldItalic: six replacements in the order of the source
ParseBoldItalic(s) ==
    ReplaceDelimited(<<"_">>, <<"<", "e", "m", ">">>, <<"<", "/", "e", "m", ">">>,
    ReplaceDelimited(<<"*">>, <<"<", "e", "m", ">">>, <<"<", "/", "e", "m", ">">>,
    ReplaceDelimited(<<"_", "_">>, <<"<", "s", "t", "r", "o", "n", "g", ">">>, <<"<", "/", "s", "t", "r", "o", "n", "g", ">">>,
    ReplaceDelimited(<<"*", "*">>, <<"<", "s", "t", "r", "o", "n", "g", ">">>, <<"<", "/", "s", "t", "r", "o", "n", "g", ">">>,
    ReplaceDelimited(<<"_", "_", "_">>, <<"<", "s", "t", "r", "o", "n", "g", ">", "<", "e", "m", ">">>, <<"<", "/", "e", "m", ">", "<", "/", "s", "t", "r", "o", "n", "g", ">">>,
    ReplaceDelimited(<<"*", "*", "*">>, <<"<", "s", "t", "r", "o", "n", "g", ">", "<", "e", "m", ">">>, <<"<", "/", "e", "m", ">", "<", "/", "s", "t", "r", "o", "n", "g", ">">>, s))))))

\* _parseStrikethrough
ParseStrikethrough(s) == ReplaceDelimited(<<"~", "~">>, <<"<", "d", "e", "l", ">">>, <<"<", "/", "d", "e", "l", ">">>, s)

\* _parseLineBreaks
ParseLineBreaks(s) ==
    ReplaceAll(ReplaceAll(s, <<" ", " ", "\n">>, <<"<", "b", "r", ">", "\n">>), <<"\\", "\n">>, <<"<", "b", "r", ">", "\n">>)

-----------------------------------------------------------------------------
(* Phase 5 of parse(): the protected spans are put back.                    *)

\* the replacement strings of the restoration loops
InlineCodeHtml(code) == <<"<", "c", "o", "d", "e", ">">> \o EscapeHtml(code) \o <<"<", "/", "c", "o", "d", "e", ">">>

MERMAID == <<"m", "e", "r", "m", "a", "i", "d">>

CodeBlockHtml(block) ==
    IF block.lang = MERMAID
    THEN <<"<", "d", "i", "v", " ", "c", "l", "a", "s", "s", "=", "\"", "m", "e", "r", "m", "a", "i", "d", "\"", ">">> \o block.code \o <<"<", "/", "d", "i", "v", ">">>
    ELSE LET langAttr == IF block.lang # <<>>
                         THEN <<" ", "c", "l", "a", "s", "s", "=", "\"", "l", "a", "n", "g", "u", "a", "g", "e", "-">> \o block.lang \o <<"\"">>
                         ELSE <<>>
         IN  <<"<", "p", "r", "e", ">", "<", "c", "o", "d", "e">> \o langAttr \o <<">">> \o EscapeHtml(block.code)
             \o <<"<", "/", "c", "o", "d", "e", ">", "<", "/", "p", "r", "e", ">">>

MathBlockHtml(math) == <<"<", "d", "i", "v", " ", "c", "l", "a", "s", "s", "=", "\"", "m", "a", "t", "h", "-", "d", "i", "s", "p", "l", "a", "y", "\"", ">", "\\", "[">> \o math \o <<"\\", "]", "<", "/", "d", "i", "v", ">">>

\* a restoration that HTML-escapes the math source
InlineMathHtmlEscaped(math) ==
    <<"<", "s", "p", "a", "n", " ", "c", "l", "a", "s", "s", "=", "\"", "m", "a", "t", "h", "-", "i", "n", "l", "i", "n", "e", "\"", ">", "\\", "(">> \o EscapeHtml(math) \o <<"\\", ")", "<", "/", "s", "p", "a", "n", ">">>

InlineMathHtml(math) == <<"<", "s", "p", "a", "n", " ", "c", "l", "a", "s", "s", "=", "\"", "m", "a", "t", "h", "-", "i", "n", "l", "i", "n", "e", "\"", ">", "\\", "(">> \o math \o <<"\\", ")", "<", "/", "s", "p", "a", "n", ">">>

\* one step of a restoration loop: html.replace(placeholder, replacement), a string
\* pattern, so the first occurrence only and the replacement read as a pattern
RestoreOne(s, kind, n, r) == ReplaceFirst(s, Placeholder(kind, n), r)

\* for (let i = 0; i < array.length; i++) html = html.replace(...), from index n on
RECURSIVE RestoreFrom(_, _, _, _)
RestoreFrom(s, kind, replacements, n) ==
    IF n >= Len(replacements) THEN s
    ELSE RestoreFrom(RestoreOne(s, kind, n, replacements[n + 1]), kind, replacements, n + 1)

Restore(s, kind, replacements) == RestoreFrom(s, kind, replacements, 0)

\* the last two statements: the escaped dollars come back, the result is trimmed
RestoreEscapedDollar(s) == Trim(ReplaceAll(s, ESCAPED_DOLLAR, <<"$">>))

-----------------------------------------------------------------------------
(* parse(md) as a state machine: one action per statement of parse().       *)

arrays == <<codeBlocks, inlineCode, mathBlocks, inlineMath, htmlBlocks, inlineHtml>>

scanner == <<lines, i, result>>

\* a statement html = f(html) that touches nothing else
Assign(from, to, v) ==
    /\ pc = from
    /\ html' = v
    /\ pc' = to
    /\ UNCHANGED <<view, md, resolver, arrays, scanner, calls>>

\* a parse() whose working string is kept from the call before
NormalizeAppending ==
    /\ pc = "start"
    /\ IF md = <<>>
       THEN html' = <<>> /\ pc' = "done"
       ELSE html' = html \o ReplaceAll(md, <<"\r", "\n">>, <<"\n">>) /\ pc' = "codeBlocks"
    /\ UNCHANGED <<view, md, resolver, arrays, scanner, calls>>

\* if (!md) return ''; then the line endings are normalized
Normalize ==
    /\ pc = "start"
    /\ IF md = <<>>
       THEN html' = <<>> /\ pc' = "done"
       ELSE html' = ReplaceAll(md, <<"\r", "\n">>, <<"\n">>) /\ pc' = "codeBlocks"
    /\ UNCHANGED <<view, md, resolver, arrays, scanner, calls>>

ExtractCodeBlocks ==
    /\ pc = "codeBlocks"
    /\ LET r == Replace(CodeBlockRe, html)
       IN  html' = r.out /\ codeBlocks' = r.items
    /\ pc' = "inlineCode"
    /\ UNCHANGED <<view, md, resolver, inlineCode, mathBlocks, inlineMath, htmlBlocks,
                   inlineHtml, scanner, calls>>

ExtractInlineCode ==
    /\ pc = "inlineCode"
    /\ LET r == Replace(InlineCodeRe, html)
       IN  html' = r.out /\ inlineCode' = r.items
    /\ pc' = "escapedDollar"
    /\ UNCHANGED <<view, md, resolver, codeBlocks, mathBlocks, inlineMath, htmlBlocks,
                   inlineHtml, scanner, calls>>

ExtractEscapedDollar ==
    Assign("escapedDollar", "mathBlocks", ReplaceAll(html, <<"\\", "$">>, ESCAPED_DOLLAR))

ExtractMathBlocks ==
    /\ pc = "mathBlocks"
    /\ LET r == Replace(MathBlockRe, html)
       IN  html' = r.out /\ mathBlocks' = r.items
    /\ pc' = "inlineMath"
    /\ UNCHANGED <<view, md, resolver, codeBlocks, inlineCode, inlineMath, htmlBlocks,
                   inlineHtml, scanner, calls>>

ExtractInlineMath ==
    /\ pc = "inlineMath"
    /\ LET r == Replace(InlineMathRe, html)
       IN  html' = r.out /\ inlineMath' = r.items
    /\ pc' = "htmlBlocks"
    /\ UNCHANGED <<view, md, resolver, codeBlocks, inlineCode, mathBlocks, htmlBlocks,
                   inlineHtml, scanner, calls>>

ExtractHtmlBlocks ==
    /\ pc = "htmlBlocks"
    /\ LET r == Replace(HtmlBlockRe, html)
       IN  html' = r.out /\ htmlBlocks' = r.items
    /\ pc' = "inlineHtml"
    /\ UNCHANGED <<view, md, resolver, codeBlocks, inlineCode, mathBlocks, inlineMath,
                   inlineHtml, scanner, calls>>

ExtractInlineHtml ==
    /\ pc = "inlineHtml"
    /\ LET r == Replace(InlineHtmlRe, html)
       IN  html' = r.out /\ inlineHtml' = r.items
    /\ pc' = "escape"
    /\ UNCHANGED <<view, md, resolver, codeBlocks, inlineCode, mathBlocks, inlineMath,
                   htmlBlocks, scanner, calls>>

Escape == Assign("escape", "blockquotes", EscapeHtml(html))

Blockquotes == Assign("blockquotes", "tables", ParseBlockquotes(html))

\* _parseTables: const lines = html.split('\n'); const result = []; let i = 0
TablesBegin ==
    /\ pc = "tables"
    /\ lines' = Split(html, <<"\n">>)
    /\ i' = 0
    /\ result' = <<>>
    /\ pc' = "tablesLoop"
    /\ UNCHANGED <<view, md, resolver, html, arrays, calls>>

\* one iteration of while (i < lines.length)
TableStep ==
    /\ pc = "tablesLoop"
    /\ i < Len(lines)
    /\ result' = Append(result, TablePush(lines, i))
    /\ i' = TableNext(lines, i)
    /\ UNCHANGED <<view, md, resolver, pc, html, arrays, lines, calls>>

\* return result.join('\n')
TablesEnd ==
    /\ pc = "tablesLoop"
    /\ i >= Len(lines)
    /\ html' = Join(result, <<"\n">>)
    /\ lines' = <<>>
    /\ i' = 0
    /\ result' = <<>>
    /\ pc' = "horizontalRules"
    /\ UNCHANGED <<view, md, resolver, arrays, calls>>

HorizontalRules == Assign("horizontalRules", "headings", ParseHorizontalRules(html))

Headings == Assign("headings", "lists", ParseHeadings(html))

Lists == Assign("lists", "paragraphs", ParseLists(html))

Paragraphs == Assign("paragraphs", "images", ParseParagraphs(html))

\* _parseImages: the callback calls this.resolveImagePath once for each match
Images ==
    /\ pc = "images"
    /\ LET r == Replace(ImageRe(resolver), html)
       IN  html' = r.out /\ calls' = calls \o r.items
    /\ pc' = "links"
    /\ UNCHANGED <<view, md, resolver, arrays, scanner>>

Links == Assign("links", "boldItalic", Replace(LinkRe, html).out)

BoldItalic == Assign("boldItalic", "strikethrough", ParseBoldItalic(html))

Strikethrough == Assign("strikethrough", "lineBreaks", ParseStrikethrough(html))

LineBreaks == Assign("lineBreaks", "restoreInlineHtml", ParseLineBreaks(html))

RestoreInlineHtml ==
    Assign("restoreInlineHtml", "restoreHtmlBlocks", Restore(html, INLINEHTML, inlineHtml))

RestoreHtmlBlocks ==
    Assign("restoreHtmlBlocks", "restoreInlineCode", Restore(html, HTMLBLOCK, htmlBlocks))

RestoreInlineCode ==
    Assign("restoreInlineCode", "restoreCodeBlocks",
           Restore(html, INLINECODE,
                   [n \in 1..Len(inlineCode) |-> InlineCodeHtml(inlineCode[n])]))

RestoreCodeBlocks ==
    Assign("restoreCodeBlocks", "restoreMathBlocks",
           Restore(html, CODEBLOCK,
                   [n \in 1..Len(codeBlocks) |-> CodeBlockHtml(codeBlocks[n])]))

RestoreMathBlocks ==
    Assign("restoreMathBlocks", "restoreInlineMath",
           Restore(html, MATHBLOCK,
                   [n \in 1..Len(mathBlocks) |-> MathBlockHtml(mathBlocks[n])]))

RestoreInlineMath ==
    Assign("restoreInlineMath", "restoreEscapedDollar",
           Restore(html, INLINEMATH,
                   [n \in 1..Len(inlineMath) |-> InlineMathHtml(inlineMath[n])]))

\* the escaped dollars are restored and html.trim() is returned
Return == Assign("restoreEscapedDollar", "done", RestoreEscapedDollar(html))

Next ==
    \/ Normalize
    \/ ExtractCodeBlocks
    \/ ExtractInlineCode
    \/ ExtractEscapedDollar
    \/ ExtractMathBlocks
    \/ ExtractInlineMath
    \/ ExtractHtmlBlocks
    \/ ExtractInlineHtml
    \/ Escape
    \/ Blockquotes
    \/ TablesBegin
    \/ TableStep
    \/ TablesEnd
    \/ HorizontalRules
    \/ Headings
    \/ Lists
    \/ Paragraphs
    \/ Images
    \/ Links
    \/ BoldItalic
    \/ Strikethrough
    \/ LineBreaks
    \/ RestoreInlineHtml
    \/ RestoreHtmlBlocks
    \/ RestoreInlineCode
    \/ RestoreCodeBlocks
    \/ RestoreMathBlocks
    \/ RestoreInlineMath
    \/ Return

\* the state when parse(s) is called on a freshly constructed parser, for an
\* argument s of the set `inputs` and a resolver option of the set `resolvers`
CallWith(inputs, resolvers) ==
    /\ md \in inputs
    /\ resolver \in resolvers
    /\ pc = "start"
    /\ html = <<>>
    /\ codeBlocks = <<>>
    /\ inlineCode = <<>>
    /\ mathBlocks = <<>>
    /\ inlineMath = <<>>
    /\ htmlBlocks = <<>>
    /\ inlineHtml = <<>>
    /\ lines = <<>>
    /\ i = 0
    /\ result = <<>>
    /\ calls = <<>>
    /\ currentMd = <<>>
    /\ container = <<>>
    /\ mermaidCache = <<>>
    /\ mermaidTimer = FALSE
    /\ renders = <<>>
    /\ value = <<>> /\ selectionStart = 0 /\ selectionEnd = 0
    /\ undoStack = <<>> /\ redoStack = <<>> /\ lastSnapshot = <<>>
    /\ snapshotTimer = FALSE
    /\ isOpen = FALSE /\ query = <<>> /\ replacement = <<>>
    /\ matchCase = FALSE /\ wholeWord = FALSE /\ useRegex = FALSE
    /\ matches = <<>> /\ currentIdx = -1 /\ searchTimer = FALSE
    /\ activeFilePath = <<>> /\ contextTarget = <<>> /\ clipboard = <<>> /\ resolvedPath = <<>>

\* the strings of at most n pieces, each piece one of `pieces`
Concat(ps) == Join(ps, <<>>)

Texts(pieces, n) == {Concat(ps) : ps \in UNION {[1..k -> pieces] : k \in 0..n}}

\* the documents of 1..n lines, each line one of `kinds`
Documents(kinds, n) == {Join(ls, <<"\n">>) : ls \in UNION {[1..k -> kinds] : k \in 1..n}}

-----------------------------------------------------------------------------
(* parse() on documents that mix the block constructs: table rows, a        *)
(* separator, a malformed row, list, quote, an emphasis marker that is      *)
(* never closed, a fence that may stay open.                                *)

MaxLines == 3

MixedLines ==
    {<<"|", "a", "|">>, <<"|", "-", "|">>, <<"|", "a">>, <<"-", " ", "a">>, <<">", " ", "a">>, <<"*", "a">>, <<Backtick, Backtick, Backtick>>, <<"a">>}

Init == CallWith(Documents(MixedLines, MaxLines), {"identity"})

Spec == Init /\ [][Next]_vars

\* the statements of parse() in the order they run
Statements ==
    <<"start", "codeBlocks", "inlineCode", "escapedDollar", "mathBlocks", "inlineMath",
      "htmlBlocks", "inlineHtml", "escape", "blockquotes", "tables", "tablesLoop",
      "horizontalRules", "headings", "lists", "paragraphs", "images", "links",
      "boldItalic", "strikethrough", "lineBreaks", "restoreInlineHtml",
      "restoreHtmlBlocks", "restoreInlineCode", "restoreCodeBlocks",
      "restoreMathBlocks", "restoreInlineMath", "restoreEscapedDollar", "done">>

Position(p) == CHOOSE n \in 1..Len(Statements) : Statements[n] = p

IsString(s) == DOMAIN s = 1..Len(s) /\ \A k \in 1..Len(s) : s[k] \in STRING

\* C1: parse(s) terminates and returns a string for every input: every step moves
\* to a later statement of parse(), except that an iteration of the table scanner
\* stays in the loop and moves its line index forward, never past the end of the
\* lines; the statement reached last returns a string
C1_Terminates ==
    [][/\ \/ Position(pc') > Position(pc)
          \/ pc = "tablesLoop" /\ pc' = "tablesLoop" /\ i' > i /\ i' <= Len(lines)
       /\ pc' = "done" => IsString(html')]_vars

\* a call that returned, on a table whose rows are followed by a fence that is
\* never closed
C1_Witness ==
    /\ pc = "done"
    /\ Contains(md, Fence)
    /\ codeBlocks = <<>>
    /\ Contains(html, <<"<", "t", "a", "b", "l", "e", ">">>)

-----------------------------------------------------------------------------
(* parse() on prose with < characters, links and images.                    *)

MaxEscapePieces == 4

EscapePieces == {<<"a">>, <<"<">>, <<" ">>, <<"[", "a", "]", "(">>, <<")">>, <<"!", "[", "a", "]", "(">>, <<"<", "b", ">">>}

InitEscape == CallWith(Texts(EscapePieces, MaxEscapePieces), {"identity"})

SpecEscape == InitEscape /\ [][Next]_vars

\* the number of indices of s at which p occurs
Count(s, p) == Cardinality({j \in 1..Len(s) : StartsWithAt(s, j, p)})

\* no extraction of phase 1 matched: no code, no math, no raw HTML tag
NothingProtected ==
    /\ codeBlocks = <<>> /\ inlineCode = <<>>
    /\ mathBlocks = <<>> /\ inlineMath = <<>>
    /\ htmlBlocks = <<>> /\ inlineHtml = <<>>

\* C2: every < of the input outside protected spans and outside a raw HTML tag
\* match appears in the returned HTML as &lt;, wherever it stands (a link
\* destination and an image path included): when nothing was protected, the
\* output holds one &lt; for each < of the input
C2_LtEscaped ==
    pc = "done" /\ NothingProtected => Count(html, <<"&", "l", "t", ";">>) = Count(md, <<"<">>)

-----------------------------------------------------------------------------
(* parse() on one terminated fenced code block.                             *)

MaxFencePieces == 4

FencePieces == {<<"a">>, <<"$">>, <<"&">>, <<"<">>, <<"*">>, <<"\n">>}

FenceLangs == {<<"j", "s">>, MERMAID}

\* the document: the fence with its language tag, the body, the closing fence
FencedBlock(lang, body) == Fence \o lang \o <<"\n">> \o body \o <<"\n">> \o Fence

InitFence ==
    CallWith({FencedBlock(lang, body) :
                  lang \in FenceLangs, body \in Texts(FencePieces, MaxFencePieces)},
             {"identity"})

SpecFence == InitFence /\ [][Next]_vars

\* the language tag and the body of the document FencedBlock(lang, body)
FenceLang(s) == Sub(s, 4, FirstIn(s, 4, {"\n"}) - 1)

FenceBody(s) == Sub(s, FirstIn(s, 4, {"\n"}) + 1, Len(s) - 4)

\* C3: a terminated fenced block with a language tag L other than mermaid and
\* body B comes out as <pre><code class="language-L"> E </code></pre>, E being B
\* without its trailing blank lines and with only & < > " replaced by entities:
\* every other character of B, a dollar sign included, is kept
C3_FenceVerbatim ==
    pc = "done" /\ FenceLang(md) # MERMAID =>
        Contains(html, <<"<", "p", "r", "e", ">", "<", "c", "o", "d", "e", " ", "c", "l", "a", "s", "s", "=", "\"", "l", "a", "n", "g", "u", "a", "g", "e", "-">> \o FenceLang(md) \o <<"\"", ">">>
                       \o EscapeHtml(TrimEnd(FenceBody(md))) \o <<"<", "/", "c", "o", "d", "e", ">", "<", "/", "p", "r", "e", ">">>)

\* C4: a fenced block tagged mermaid comes out as <div class="mermaid"> source
\* </div>, source being the text of the block untouched: nothing escaped, nothing
\* transformed, no character added, removed or substituted by the restoration
C4_MermaidUntouched ==
    pc = "done" /\ FenceLang(md) = MERMAID =>
        Contains(html, <<"<", "d", "i", "v", " ", "c", "l", "a", "s", "s", "=", "\"", "m", "e", "r", "m", "a", "i", "d", "\"", ">">> \o TrimEnd(FenceBody(md)) \o <<"<", "/", "d", "i", "v", ">">>)

-----------------------------------------------------------------------------
(* parse() on runs of list lines.                                           *)

MaxListLines == 4

ListLines == {<<"-", " ", "a">>, <<" ", " ", "-", " ", "b">>, <<"-", " ", "c">>, <<"1", ".", " ", "d">>, <<" ", " ", "1", ".", " ", "e">>, <<" ", " ", " ", " ", "-", " ", "f">>}

InitList == CallWith(Documents(ListLines, MaxListLines), {"identity"})

SpecList == InitList /\ [][Next]_vars

\* the indent and the list type of a list line, read off the line
IndentOf(line) == FirstNotIn(line, 1, {" "}) - 1

TypeOf(line) == IF line[IndentOf(line) + 1] \in Digit THEN "ol" ELSE "ul"

\* no item is indented less than the first item, and all items at the first
\* item's indent have its list type
RegularRun(ls) ==
    \A k \in 1..Len(ls) :
        /\ IndentOf(ls[k]) >= IndentOf(ls[1])
        /\ IndentOf(ls[k]) = IndentOf(ls[1]) => TypeOf(ls[k]) = TypeOf(ls[1])

\* how many lists are open after the first j characters of s
ListDepth(s, j) ==
    Cardinality({k \in 1..j : StartsWithAt(s, k, <<"<", "u", "l", ">">>) \/ StartsWithAt(s, k, <<"<", "o", "l", ">">>)})
    - Cardinality({k \in 1..j : StartsWithAt(s, k, <<"<", "/", "u", "l", ">">>) \/ StartsWithAt(s, k, <<"<", "/", "o", "l", ">">>)})

\* s is one list element of the given type: it opens with the tag, closes with
\* the matching tag at its very end, and no list closes to depth 0 before that
OneTopLevelList(s, type) ==
    /\ StartsWithAt(s, 1, OpenTag(type))
    /\ StartsWithAt(s, Len(s) - 4, CloseTag(type))
    /\ \A j \in 1..(Len(s) - 5) : ListDepth(s, j) >= 1
    /\ ListDepth(s, Len(s)) = 0

\* C5: a run of consecutive list lines in which no item is indented less than
\* the first and all items at the first item's indent have the same type comes
\* out as exactly one top-level list with the deeper items nested inside it and
\* one <li> for each line; - a, (two spaces) - b, - c gives
\* <ul><li>a</li><ul><li>b</li></ul><li>c</li></ul>
C5_OneTopLevelList ==
    pc = "done" /\ RegularRun(Split(md, <<"\n">>)) =>
        /\ OneTopLevelList(html, TypeOf(Split(md, <<"\n">>)[1]))
        /\ Count(html, <<"<", "l", "i", ">">>) = Len(Split(md, <<"\n">>))
        /\ md = <<"-", " ", "a", "\n", " ", " ", "-", " ", "b", "\n", "-", " ", "c">> =>
               html = <<"<", "u", "l", ">", "<", "l", "i", ">", "a", "<", "/", "l", "i", ">", "<", "u", "l", ">", "<", "l", "i", ">", "b", "<", "/", "l", "i", ">", "<", "/", "u", "l", ">", "<", "l", "i", ">", "c", "<", "/", "l", "i", ">", "<", "/", "u", "l", ">">>

\* the example of the claim, returned
C5_Witness ==
    /\ pc = "done"
    /\ md = <<"-", " ", "a", "\n", " ", " ", "-", " ", "b", "\n", "-", " ", "c">>
    /\ Count(html, <<"<", "u", "l", ">">>) = 2

-----------------------------------------------------------------------------
(* parse() on pipe-delimited lines.                                         *)

MaxTableLines == 3

TableLines ==
    {<<"|", "A", "|", "B", "|">>, <<"|", "-", "|", "-", "|">>, <<"|", ":", "-", ":", "|", "-", ":", "|">>, <<"|", "n", "o", "|">>, <<"|", "|", "|">>, <<"|", " ", "|">>, <<"|", ":", "|">>, <<"x">>}

InitTable == CallWith(Documents(TableLines, MaxTableLines), {"identity"})

SpecTable == InitTable /\ [][Next]_vars

\* a line that starts and ends with a pipe, with something between
PipeDelimited(line) == Len(line) >= 3 /\ line[1] = "|" /\ line[Len(line)] = "|"

\* a run of one or more -, with an optional leading and an optional trailing :
SeparatorCell(c) ==
    \E a \in 1..Len(c) : \E b \in a..Len(c) :
        /\ \A k \in a..b : c[k] = "-"
        /\ a = 1 \/ (a = 2 /\ c[1] = ":")
        /\ b = Len(c) \/ (b = Len(c) - 1 /\ c[Len(c)] = ":")

\* a pipe-delimited line in which every cell is such a run
ValidSeparator(line) ==
    /\ PipeDelimited(line)
    /\ \A c \in {Trim(Split(Sub(line, 2, Len(line) - 1), <<"|">>)[k]) :
                    k \in 1..Len(Split(Sub(line, 2, Len(line) - 1), <<"|">>))} :
           SeparatorCell(c)

\* C6: a <table> is emitted only when the line right below a pipe-delimited
\* header line is a valid separator, every cell of it a run of - with optional
\* colons; a header followed by any other line (|no|, or a line of only pipes,
\* spaces or colons) gives no table
C6_TableNeedsSeparator ==
    pc = "done" /\ Contains(html, <<"<", "t", "a", "b", "l", "e", ">">>) =>
        \E k \in 1..(Len(Split(md, <<"\n">>)) - 1) :
            /\ PipeDelimited(Split(md, <<"\n">>)[k])
            /\ ValidSeparator(Split(md, <<"\n">>)[k + 1])

-----------------------------------------------------------------------------
(* parse() on one math span: $m$ and $$m$$.                                 *)

MaxMathPieces == 3

MathPieces == {<<"x">>, <<"\\">>, <<" ">>, <<"\n">>, <<"\r">>, <<"<">>, <<"*">>, <<"&">>}

InlineMathOf(m) == <<"$">> \o m \o <<"$">>

DisplayMathOf(m) == <<"$", "$">> \o m \o <<"$", "$">>

InitMath ==
    CallWith({InlineMathOf(m) : m \in Texts(MathPieces, MaxMathPieces) \ {<<>>}}
             \cup {DisplayMathOf(m) : m \in Texts(MathPieces, MaxMathPieces) \ {<<>>}},
             {"identity"})

SpecMath == InitMath /\ [][Next]_vars

\* the form and the math source of the document
IsDisplayMath(s) == StartsWithAt(s, 1, <<"$", "$">>)

MathSource(s) == IF IsDisplayMath(s) THEN Sub(s, 3, Len(s) - 2) ELSE Sub(s, 2, Len(s) - 1)

\* the premise of the claim: no dollar, no backtick and, for inline, no newline
PlainMath(s) ==
    /\ ~Contains(MathSource(s), <<"$">>)
    /\ ~Contains(MathSource(s), <<Backtick>>)
    /\ IsDisplayMath(s) \/ ~Contains(MathSource(s), <<"\n">>)

\* the premise that makes it true: neither the sentinel nor a CR LF pair in m,
\* and no backslash right before the closing delimiter
RegularMath(s) ==
    /\ PlainMath(s)
    /\ ~Contains(MathSource(s), <<NUL>>)
    /\ ~Contains(MathSource(s), <<"\r", "\n">>)
    /\ MathSource(s)[Len(MathSource(s))] # "\\"

InlineWrapper(m) == <<"<", "s", "p", "a", "n", " ", "c", "l", "a", "s", "s", "=", "\"", "m", "a", "t", "h", "-", "i", "n", "l", "i", "n", "e", "\"", ">", "\\", "(">> \o m \o <<"\\", ")", "<", "/", "s", "p", "a", "n", ">">>

DisplayWrapper(m) == <<"<", "d", "i", "v", " ", "c", "l", "a", "s", "s", "=", "\"", "m", "a", "t", "h", "-", "d", "i", "s", "p", "l", "a", "y", "\"", ">", "\\", "[">> \o m \o <<"\\", "]", "<", "/", "d", "i", "v", ">">>

-----------------------------------------------------------------------------
(* parse() on text whose every dollar sign is escaped.                      *)

MaxDollarPieces == 4

DollarPieces == {<<"\\", "$">>, <<"5">>, <<"&">>, <<" ">>, <<"*">>, <<Backtick>>}

InitDollar == CallWith(Texts(DollarPieces, MaxDollarPieces), {"identity"})

SpecDollar == InitDollar /\ [][Next]_vars

\* each $ of s is immediately preceded by a backslash
EveryDollarEscaped(s) ==
    \A j \in 1..Len(s) : s[j] = "$" => j > 1 /\ s[j - 1] = "\\"

\* C8: when each $ of the input is immediately preceded by a backslash the output
\* holds no math-inline and no math-display wrapper, and each escaped dollar comes
\* out as a literal $: the output holds as many $ as the input
C8_EscapedDollarLiteral ==
    pc = "done" /\ EveryDollarEscaped(md) =>
        /\ ~Contains(html, <<"m", "a", "t", "h", "-", "i", "n", "l", "i", "n", "e">>)
        /\ ~Contains(html, <<"m", "a", "t", "h", "-", "d", "i", "s", "p", "l", "a", "y">>)
        /\ Count(html, <<"$">>) = Count(md, <<"$">>)

-----------------------------------------------------------------------------
(* parse() on one image, with and without a resolver.                       *)

MaxImagePieces == 5

ImagePieces == {<<"a">>, <<"_">>, <<"*">>, <<"~">>}

ImageOf(p) == <<"!", "[", "a", "l", "t", "]", "(">> \o p \o <<")">>

InitImage ==
    CallWith({ImageOf(p) : p \in Texts(ImagePieces, MaxImagePieces) \ {<<>>}},
             {"identity", "prefix"})

SpecImage == InitImage /\ [][Next]_vars

\* the path of the document ImageOf(p)
ImagePath(s) == Sub(s, 8, Len(s) - 1)

\* a path with none of ) < > & " backtick $
PlainPath(p) == \A j \in 1..Len(p) : p[j] \notin {")", "<", ">", "&", "\"", Backtick, "$"}

\* C9: for an image ![alt](p) in unprotected text whose path p holds none of
\* ) < > & " backtick $, and a resolver r, the returned HTML holds an <img> whose src
\* attribute is exactly r(p); the later inline phases leave the value unchanged
C9_ImageSrcResolved ==
    pc = "done" /\ PlainPath(ImagePath(md)) =>
        Contains(html, <<"<", "i", "m", "g", " ", "s", "r", "c", "=", "\"">> \o ResolveImagePath(resolver, ImagePath(md)) \o <<"\"", " ", "a", "l", "t", "=", "\"">>)

-----------------------------------------------------------------------------
(* parse() on documents that hold images inside and outside protected       *)
(* spans, and the calls of resolveImagePath it makes.                       *)

MaxResolveLines == 4

PlainImage == <<"!", "[", "a", "]", "(", "b", ")">>

TwoImages == <<"x", " ", "!", "[", "a", "]", "(", "c", ")", " ", "!", "[", "a", "]", "(", "d", ")">>

CodeImage == <<Backtick>> \o <<"!", "[", "a", "]", "(", "p", ")">> \o <<Backtick>>

MathImage == <<"$", "!", "[", "a", "]", "(", "p", ")", "$">>

HtmlImage == <<"<", "d", "i", "v", ">", "!", "[", "a", "]", "(", "p", ")">>

ResolveLines == {PlainImage, TwoImages, CodeImage, MathImage, HtmlImage, Fence}

InitResolve == CallWith(Documents(ResolveLines, MaxResolveLines), {"identity", "prefix"})

SpecResolve == InitResolve /\ [][Next]_vars

\* line n lies in a fenced block: an odd number of fence lines above it, a fence line below
InsideFence(ls, n) ==
    /\ Cardinality({j \in 1..(n - 1) : ls[j] = Fence}) % 2 = 1
    /\ \E j \in (n + 1)..Len(ls) : ls[j] = Fence

\* a line that is an inline code span, a math span or a raw-HTML block line
ProtectedLine(l) == l[1] \in {Backtick, "$", "<"}

\* where the images of a line start, and their paths from left to right
ImageStarts(l) == {j \in 1..Len(l) : StartsWithAt(l, j, <<"!", "[", "a", "]", "(">>)}

ImagePaths(l) ==
    [n \in 1..Cardinality(ImageStarts(l)) |->
        <<l[(CHOOSE j \in ImageStarts(l) :
                Cardinality({q \in ImageStarts(l) : q < j}) = n - 1) + 5]>>]

\* the paths of the images in unprotected text, in document order, from line n on
RECURSIVE UnprotectedFrom(_, _)
UnprotectedFrom(ls, n) ==
    IF n > Len(ls) THEN <<>>
    ELSE (IF ls[n] = Fence \/ InsideFence(ls, n) \/ ProtectedLine(ls[n]) THEN <<>>
          ELSE ImagePaths(ls[n]))
         \o UnprotectedFrom(ls, n + 1)

UnprotectedImages(s) == UnprotectedFrom(Split(s, <<"\n">>), 1)

-----------------------------------------------------------------------------
(* parse() on one image whose path holds entity text and the characters     *)
(* _escapeHtml replaces.                                                    *)

MaxAttrPieces == 3

AttrPieces == {<<"a">>, <<"&">>, <<"<">>, <<"\"">>, <<"&", "l", "t", ";">>, <<"&", "a", "m", "p", ";">>}

InitAttr ==
    CallWith({ImageOf(p) : p \in Texts(AttrPieces, MaxAttrPieces) \ {<<>>}},
             {"identity", "prefix"})

SpecAttr == InitAttr /\ [][Next]_vars

\* C11: the string handed to resolveImagePath is exactly the raw src text p written
\* between the parentheses: _unescapeForAttr(_escapeHtml(p)) = p for every p, a p
\* that already holds entity text such as &lt; or &amp; included
C11_SrcRoundTrip ==
    pc = "done" =>
        /\ UnescapeForAttr(EscapeHtml(ImagePath(md))) = ImagePath(md)
        /\ calls = <<ImagePath(md)>>

-----------------------------------------------------------------------------
(* Several calls of parse() on one parser instance.                         *)

\* parse(s) as one expression: the statements of parse() composed in order, each
\* extraction starting from an empty array
RECURSIVE TablesFrom(_, _, _)
TablesFrom(ls, n, res) ==
    IF n >= Len(ls) THEN Join(res, <<"\n">>)
    ELSE TablesFrom(ls, TableNext(ls, n), Append(res, TablePush(ls, n)))

ParseTables(s) == TablesFrom(Split(s, <<"\n">>), 0, <<>>)

\* the locals of a call as a record: the working string out and the six arrays;
\* each statement is applied to the finished value of the statement before
Locals(s) ==
    [out |-> s, cb |-> <<>>, ic |-> <<>>, mb |-> <<>>, im |-> <<>>, hb |-> <<>>, ih |-> <<>>]

\* html = f(html)
Stage(f(_), x) == IF x = x THEN [x EXCEPT !.out = f(x.out)] ELSE x

\* html = html.replace(re, callback), the callback pushing on the array `field`
ExtractStage(re, field, x) ==
    IF x = x
    THEN [x EXCEPT ![field] = Replace(re, x.out).items, !.out = Replace(re, x.out).out]
    ELSE x

\* a restoration loop over the array `field`
RestoreStage(kind, field, Html(_), x) ==
    IF x = x
    THEN [x EXCEPT !.out = Restore(x.out, kind,
                                   [n \in 1..Len(x[field]) |-> Html(x[field][n])])]
    ELSE x

Phase1(s) ==
    ExtractStage(InlineHtmlRe, "ih",
    ExtractStage(HtmlBlockRe, "hb",
    ExtractStage(InlineMathRe, "im",
    ExtractStage(MathBlockRe, "mb",
    Stage(LAMBDA h : ReplaceAll(h, <<"\\", "$">>, ESCAPED_DOLLAR),
    ExtractStage(InlineCodeRe, "ic",
    ExtractStage(CodeBlockRe, "cb",
    Locals(ReplaceAll(s, <<"\r", "\n">>, <<"\n">>)))))))))

\* phases 2 and 3
BlockPhase(x) ==
    Stage(ParseParagraphs, Stage(ParseLists, Stage(ParseHeadings,
    Stage(ParseHorizontalRules, Stage(ParseTables, Stage(ParseBlockquotes,
    Stage(EscapeHtml, x)))))))

\* phase 4
InlinePhase(x, r) ==
    Stage(ParseLineBreaks, Stage(ParseStrikethrough, Stage(ParseBoldItalic,
    Stage(LAMBDA h : Replace(LinkRe, h).out,
    Stage(LAMBDA h : Replace(ImageRe(r), h).out, x)))))

\* phase 5
Phase5(x) ==
    Stage(RestoreEscapedDollar,
    RestoreStage(INLINEMATH, "im", InlineMathHtml,
    RestoreStage(MATHBLOCK, "mb", MathBlockHtml,
    RestoreStage(CODEBLOCK, "cb", CodeBlockHtml,
    RestoreStage(INLINECODE, "ic", InlineCodeHtml,
    RestoreStage(HTMLBLOCK, "hb", LAMBDA v : v,
    RestoreStage(INLINEHTML, "ih", LAMBDA v : v, x)))))))

Parse(s, r) ==
    IF s = <<>> THEN <<>> ELSE Phase5(InlinePhase(BlockPhase(Phase1(s)), r)).out

MaxSessionCalls == 2

SessionInputs ==
    {<<"a">>, <<Backtick>> \o <<"a">> \o <<Backtick>>, PlainImage, MathImage, HtmlImage,
     FencedBlock(<<"j", "s">>, <<"a">>),
     <<Backtick>> \o <<"a">> \o <<Backtick, " ", Backtick>> \o <<"b">> \o <<Backtick>>}

\* parse(md) is called again on the same instance once the previous call has
\* returned: the locals of that call are garbage until the statements of the new
\* call declare them anew; calls keeps logging the invocations of the resolver
Again ==
    /\ pc = "done"
    /\ Len(calls) < MaxSessionCalls
    /\ md' \in SessionInputs
    /\ pc' = "start"
    /\ UNCHANGED <<view, resolver, html, arrays, scanner, calls>>

NextSession == Next \/ Again

InitSession == CallWith(SessionInputs, {"identity", "prefix"})

SpecSession == InitSession /\ [][NextSession]_vars

\* C12: parse holds no cross-call state: whatever was parsed before on the same
\* instance, a call of parse(s) returns the string a first call returns, and no
\* step of a call changes the parser's field resolveImagePath
C12_NoCrossCallState ==
    [][/\ resolver' = resolver
       /\ pc = "done" => html = Parse(md, resolver)]_vars

\* a second call on the same image has returned, after a call on another input
\* left its arrays behind
C12_Witness ==
    /\ pc = "done"
    /\ md = PlainImage
    /\ Len(calls) = 2
    /\ html = Parse(PlainImage, resolver)

-----------------------------------------------------------------------------
(* parse() on protected spans nested in one another.                        *)

MaxNestPieces == 4

NestPieces == {<<Backtick>> \o <<"a">> \o <<Backtick>>, <<"$">>, <<"<", "b", " ">>, <<">">>, <<"x">>}

InitNest == CallWith(Texts(NestPieces, MaxNestPieces), {"identity"})

SpecNest == InitNest /\ [][Next]_vars

\* C13: for an input without the sentinel character the returned HTML holds no
\* sentinel character: every placeholder token is replaced by its finished HTML,
\* also a token that ended up inside the stored content of a span extracted later
C13_NoSentinelLeft ==
    pc = "done" /\ ~Contains(md, <<NUL>>) => ~Contains(html, <<NUL>>)

-----------------------------------------------------------------------------
(* parse() on documents with many protected spans of one kind, and the      *)
(* placeholder tokens it issues.                                            *)

MaxSpans == 11

SpanPieces ==
    {<<Backtick>> \o <<"a">> \o <<Backtick>>, <<"$", "a", "$">>, <<"<", "b", ">">>, <<"$", "$", "a", "$", "$">>, <<"<", "d", "i", "v", ">", "\n">>,
     Fence \o <<"\n", "a">> \o Fence, <<"*", "x", "*", " ">>}

Repeated(p, n) == Concat([k \in 1..n |-> p])

InitSpans ==
    CallWith({Repeated(p, n) : p \in SpanPieces, n \in 1..MaxSpans}
             \cup Texts(SpanPieces, 2),
             {"identity"})

SpecSpans == InitSpans /\ [][Next]_vars

\* the tokens issued so far in this call: one for each element of each array
Issued ==
    {Placeholder(CODEBLOCK, n) : n \in 0..(Len(codeBlocks) - 1)}
    \cup {Placeholder(INLINECODE, n) : n \in 0..(Len(inlineCode) - 1)}
    \cup {Placeholder(MATHBLOCK, n) : n \in 0..(Len(mathBlocks) - 1)}
    \cup {Placeholder(INLINEMATH, n) : n \in 0..(Len(inlineMath) - 1)}
    \cup {Placeholder(HTMLBLOCK, n) : n \in 0..(Len(htmlBlocks) - 1)}
    \cup {Placeholder(INLINEHTML, n) : n \in 0..(Len(inlineHtml) - 1)}

SpanCount ==
    Len(codeBlocks) + Len(inlineCode) + Len(mathBlocks) + Len(inlineMath)
    + Len(htmlBlocks) + Len(inlineHtml)

\* where the token t occurs in the string s
Occurrences(s, t) == {j \in 1..Len(s) : StartsWithAt(s, j, t)}

\* every span has a token of its own, no token occurs inside another one, and in
\* two adjacent tokens a token occurs only as the first or as the second of them
TokensDistinct ==
    /\ Cardinality(Issued) = SpanCount
    /\ \A t \in Issued : t[1] = NUL /\ t[Len(t)] = NUL
    /\ \A t, u \in Issued : t # u => Occurrences(u, t) = {}
    /\ \A t, u, v \in Issued :
           Occurrences(u \o v, t) \subseteq {1, Len(u) + 1}

\* the statements of phases 2, 3 and 4
MiddlePhases ==
    {"escape", "blockquotes", "tables", "tablesLoop", "horizontalRules", "headings",
     "lists", "paragraphs", "images", "links", "boldItalic", "strikethrough",
     "lineBreaks"}

\* C14: within one call over sentinel-free input each protected span gets a token
\* sentinel KIND index sentinel that differs from every other span's token, no
\* token is a substring of another token or straddles two adjacent tokens, and no
\* step of the escape, block and inline phases adds an occurrence of a token or a
\* sentinel character to the working string
C14_TokensUnambiguous ==
    [][/\ pc' = "escape" => TokensDistinct'
       /\ pc \in MiddlePhases =>
              /\ \A t \in Issued :
                     Cardinality(Occurrences(html', t)) <= Cardinality(Occurrences(html, t))
              /\ Cardinality(Occurrences(html', <<NUL>>))
                     <= Cardinality(Occurrences(html, <<NUL>>))]_vars

\* phase 1 has issued the tokens with the indices 1 and 10 of one kind
C14_Witness ==
    /\ pc = "escape"
    /\ ~Contains(md, <<NUL>>)
    /\ Len(inlineCode) >= 11
    /\ Contains(html, Placeholder(INLINECODE, 1))
    /\ Contains(html, Placeholder(INLINECODE, 10))

-----------------------------------------------------------------------------
(* parse() on input that itself holds the text of a placeholder token.      *)

MaxCollisionPieces == 3

CodeSpan == <<Backtick>> \o <<"a">> \o <<Backtick>>

CollisionPieces == {Placeholder(INLINECODE, 0), CodeSpan, <<"x">>}

InitCollision == CallWith(Texts(CollisionPieces, MaxCollisionPieces), {"identity"})

SpecCollision == InitCollision /\ [][Next]_vars

\* C15: placeholders are distinguishable from user content also when the input
\* holds the sentinel followed by a kind tag and an index: restoration substitutes
\* only the tokens extraction inserted, so the output is the input with each code
\* span replaced, where it stands, by its HTML, the literal token text left as it is
C15_UserTextNotRestored ==
    pc = "done" => Contains(html, ReplaceAll(md, CodeSpan, <<"<", "c", "o", "d", "e", ">", "a", "<", "/", "c", "o", "d", "e", ">">>))

-----------------------------------------------------------------------------
(* parse() on one link or image whose destination holds a double quote.     *)

MaxQuotePieces == 3

QuotePieces == {<<"a">>, <<"\"">>, <<" ">>, <<"=">>}

LinkOf(p) == <<"[", "a", "]", "(">> \o p \o <<")">>

InitQuote ==
    CallWith({ImageOf(p) : p \in Texts(QuotePieces, MaxQuotePieces) \ {<<>>}}
             \cup {LinkOf(p) : p \in Texts(QuotePieces, MaxQuotePieces) \ {<<>>}},
             {"identity"})

SpecQuote == InitQuote /\ [][Next]_vars

\* the double quotes the engine writes around the attribute values of one <a>
\* (href, target, rel) or one <img> (src, alt, loading)
EngineQuotes == 6

\* C16: for an input without < user text adds no tag and no attribute: the href,
\* src and alt values of the <a> or <img> the engine emits stay inside the engine's
\* own double quotes, so the output holds no double quote besides those
C16_AttributesQuoted ==
    pc = "done" /\ ~Contains(md, <<"<">>) =>
        /\ Count(html, <<"\"">>) = EngineQuotes
        /\ Count(html, <<"<">>) = Count(html, <<">">>)

-----------------------------------------------------------------------------
(* preview.js: Preview.render and the debounced Mermaid rendering.          *)

parser == <<md, resolver, pc, html, arrays, scanner, calls>>

\* the div.mermaid elements of an HTML string, in document order: querySelectorAll
\* on the container whose innerHTML the string was assigned to. An element is its
\* text, whether it holds an <svg>, and whether a render promise is pending for it
MermaidOpen == <<"<", "d", "i", "v", " ", "c", "l", "a", "s", "s", "=", "\"", "m", "e", "r", "m", "a", "i", "d", "\"", ">">>

MermaidStarts(h) == {j \in 1..Len(h) : StartsWithAt(h, j, MermaidOpen)}

MermaidStart(h, n) ==
    CHOOSE j \in MermaidStarts(h) : Cardinality({q \in MermaidStarts(h) : q < j}) = n - 1

MermaidElements(h) ==
    [n \in 1..Cardinality(MermaidStarts(h)) |->
        [source |-> Sub(h, MermaidStart(h, n) + Len(MermaidOpen),
                        IndexOf(h, <<"<", "/", "d", "i", "v", ">">>, MermaidStart(h, n)) - 1),
         svg |-> FALSE, pending |-> FALSE]]

\* str.charCodeAt(i) for the capital letters
Capitals ==
    <<"A", "B", "C", "D", "E", "F", "G", "H", "I", "J", "K", "L", "M",
      "N", "O", "P", "Q", "R", "S", "T", "U", "V", "W", "X", "Y", "Z">>

CharCodeAt(str, k) == 64 + (CHOOSE n \in 1..26 : Capitals[n] = str[k])

\* _simpleHash: hash = ((hash << 5) - hash) + charCode; hash |= 0. For the sources
\* of the model (a few letters) the value stays far below 2^31, where |= 0 changes
\* nothing and (hash << 5) - hash is 31 * hash
RECURSIVE SimpleHashFrom(_, _, _)
SimpleHashFrom(str, k, hash) ==
    IF k > Len(str) THEN hash
    ELSE SimpleHashFrom(str, k + 1, 31 * hash + CharCodeAt(str, k))

SimpleHash(str) == SimpleHashFrom(str, 1, 0)

\* render(md): parse, sanitize, assign innerHTML, then the two triggers.
\* DOMPurify keeps div and class, so the mermaid elements are those of the parsed
\* HTML; _resolveImage is not reached by documents without images
Render(m) ==
    /\ currentMd' = m
    /\ container' = MermaidElements(Parse(m, "identity"))
    /\ mermaidTimer' = TRUE
    /\ UNCHANGED <<mermaidCache, renders, parser, explorer>>

\* the skip test of the forEach callback for the element k (idx = k - 1)
Unchanged(k) ==
    /\ k <= Len(mermaidCache)
    /\ mermaidCache[k] = SimpleHash(Trim(container[k].source))
    /\ container[k].svg

\* the element k after the callback: mermaid.render returned { svg } or a promise
Rendered(el, returns) ==
    IF returns = "svg" THEN [el EXCEPT !.svg = TRUE] ELSE [el EXCEPT !.pending = TRUE]

\* the callback of setTimeout in _triggerMermaid, mermaid being loaded
MermaidTimeout(returns) ==
    /\ mermaidTimer
    /\ mermaidTimer' = FALSE
    /\ mermaidCache' =
           [k \in 1..(IF Len(container) > Len(mermaidCache)
                      THEN Len(container) ELSE Len(mermaidCache)) |->
               IF k <= Len(container) /\ ~Unchanged(k)
               THEN SimpleHash(Trim(container[k].source))
               ELSE mermaidCache[k]]
    /\ renders' =
           SelectSeq([k \in 1..Len(container) |->
                         [id |-> k - 1, source |-> Trim(container[k].source),
                          skipped |-> Unchanged(k)]],
                     LAMBDA call : ~call.skipped)
    /\ container' =
           [k \in 1..Len(container) |->
               IF Unchanged(k) THEN container[k] ELSE Rendered(container[k], returns)]
    /\ UNCHANGED <<currentMd, parser, explorer>>

\* renderResult.then(({ svg }) => { el.innerHTML = svg }) for an element that is
\* still in the container
PromiseResolved(k) ==
    /\ k \in 1..Len(container)
    /\ container[k].pending
    /\ container' = [container EXCEPT ![k] = [@ EXCEPT !.pending = FALSE, !.svg = TRUE]]
    /\ UNCHANGED <<currentMd, mermaidCache, mermaidTimer, renders, parser, explorer, editor, finder>>

MaxDiagrams == 2

DiagramSources == {<<"A">>, <<"B">>}

PreviewInputs ==
    {<<"x">>} \cup
    {Join([k \in 1..Len(ds) |-> FencedBlock(MERMAID, ds[k])], <<"\n">>) :
        ds \in UNION {[1..n -> DiagramSources] : n \in 1..MaxDiagrams}}

\* eventBus 'editor:input'
EditorInput == \E m \in PreviewInputs : Render(m) /\ UNCHANGED <<editor, finder>>

\* eventBus 'files:changed': _rerender
FilesChanged == currentMd # <<>> /\ Render(currentMd) /\ UNCHANGED <<editor, finder>>

NextPreview ==
    \/ EditorInput
    \/ FilesChanged
    \/ \E returns \in {"svg", "promise"} : MermaidTimeout(returns) /\ UNCHANGED <<editor, finder>>
    \/ \E k \in 1..MaxDiagrams : PromiseResolved(k)

InitPreview == CallWith({<<>>}, {"identity"})

SpecPreview == InitPreview /\ [][NextPreview]_vars

\* C17: Mermaid rendering is cached: when the timer callback runs after a render
\* and the diagram at a position has the source whose hash the cache holds for that
\* position (the source mermaid.render got there last), mermaid.render is not
\* invoked again for that diagram
C17_UnchangedNotRerendered ==
    [][mermaidTimer /\ ~mermaidTimer' =>
          \A k \in 1..Len(container) :
              (k <= Len(mermaidCache)
               /\ mermaidCache[k] = SimpleHash(Trim(container[k].source)))
              => \A n \in 1..Len(renders') : renders'[n].id # k - 1]_vars

-----------------------------------------------------------------------------
(* parse() on text between the documented delimiters \( \) and \[ \].       *)

MaxDelimPieces == 3

DelimPieces == {<<"a">>, <<"<">>, <<"*">>, <<"&">>, <<"_">>, <<" ">>}

InitDelim ==
    CallWith({<<"\\", "(">> \o m \o <<"\\", ")">> : m \in Texts(DelimPieces, MaxDelimPieces) \ {<<>>}}
             \cup {<<"\\", "[">> \o m \o <<"\\", "]">> : m \in Texts(DelimPieces, MaxDelimPieces) \ {<<>>}},
             {"identity"})

SpecDelim == InitDelim /\ [][Next]_vars

\* C18: text written between \( and \) or between \[ and \] is protected: the
\* span reaches the output unchanged, its characters neither HTML-escaped nor
\* transformed as Markdown
C18_DelimitedMathProtected ==
    pc = "done" => Contains(html, md)

-----------------------------------------------------------------------------
(* flushList on every run of list items: the stack of open lists and the    *)
(* tags it emits.                                                           *)

\* the items of the lines of s, as the for loop of _parseLists collects them
ItemsOf(s) == [k \in 1..Len(Split(s, <<"\n">>)) |-> ListItem(Split(s, <<"\n">>)[k])]

\* flushList after the first k items
FlushedTo(items, k) == FlushItems(Sub(items, 1, k), 1, [listHtml |-> <<>>, stack |-> <<>>])

StrictlyIncreasing(stack) ==
    \A a, b \in 1..Len(stack) : a < b => stack[a].indent < stack[b].indent

\* the list tags of s in document order: where they start and what they are
ListTagKinds == {<<"<", "u", "l", ">">>, <<"<", "o", "l", ">">>, <<"<", "/", "u", "l", ">">>, <<"<", "/", "o", "l", ">">>, <<"<", "l", "i", ">">>}

ListTagStarts(s) == {j \in 1..Len(s) : \E t \in ListTagKinds : StartsWithAt(s, j, t)}

ListTagsAt(s, starts) ==
    [n \in 1..Cardinality(starts) |->
        CHOOSE t \in ListTagKinds :
            StartsWithAt(s, CHOOSE j \in starts : Cardinality({q \in starts : q < j}) = n - 1, t)]

ListTags(s) == ListTagsAt(s, ListTagStarts(s))

\* reading the tags from the k-th on with the types of the open lists in `open`:
\* a close tag closes the list opened last, a <li> stands inside an open list, and
\* nothing is open at the end
RECURSIVE WellNestedFrom(_, _, _)
WellNestedFrom(tags, k, open) ==
    IF k > Len(tags) THEN open = <<>>
    ELSE IF tags[k] = <<"<", "l", "i", ">">> THEN open # <<>> /\ WellNestedFrom(tags, k + 1, open)
    ELSE IF tags[k] = <<"<", "u", "l", ">">> THEN WellNestedFrom(tags, k + 1, Append(open, "ul"))
    ELSE IF tags[k] = <<"<", "o", "l", ">">> THEN WellNestedFrom(tags, k + 1, Append(open, "ol"))
    ELSE /\ open # <<>>
         /\ open[Len(open)] = (IF tags[k] = <<"<", "/", "o", "l", ">">> THEN "ol" ELSE "ul")
         /\ WellNestedFrom(tags, k + 1, Sub(open, 1, Len(open) - 1))

WellNested(s) == WellNestedFrom(ListTags(s), 1, <<>>)

\* the stack of flushList after each of the items and at the end of the flush
StackDiscipline(items) ==
    /\ \A k \in 1..Len(items) :
           /\ StrictlyIncreasing(FlushedTo(items, k).stack)
           /\ FlushedTo(items, k).stack # <<>>
    /\ CloseAll(FlushedTo(items, Len(items))).stack = <<>>

\* C19: during a list flush the stack of open lists has strictly increasing
\* indents from bottom to top and is not empty once an item was handled (its <li>
\* is emitted inside an open list), the stack is empty when the flush ends, and
\* the tags the flush emits are balanced and properly nested: each close tag has
\* the type of the list opened last and still open
C19_FlushStackDiscipline ==
    [][pc = "lists" => StackDiscipline(ItemsOf(html)) /\ WellNested(html')]_vars

\* a flushed run that goes down two levels, comes back one with a type change and
\* then returns to the first level with another type
C19_Witness ==
    /\ pc = "paragraphs"
    /\ md = <<"-", " ", "a", "\n", " ", " ", " ", " ", "-", " ", "f", "\n", " ", " ", "1", ".", " ", "e", "\n", "1", ".", " ", "d">>
    /\ html = <<"<", "u", "l", ">", "<", "l", "i", ">", "a", "<", "/", "l", "i", ">", "<", "u", "l", ">", "<", "l", "i", ">", "f", "<", "/", "l", "i", ">", "<", "/", "u", "l", ">", "<", "o", "l", ">", "<", "l", "i", ">", "e", "<", "/", "l", "i", ">", "<", "/", "o", "l", ">", "<", "/", "u", "l", ">", "<", "o", "l", ">", "<", "l", "i", ">", "d", "<", "/", "l", "i", ">", "<", "/", "o", "l", ">">>

-----------------------------------------------------------------------------
(* parse() on a document whose opening fence line is never closed.          *)

MaxOpenFenceLines == 3

OpenFenceLines == {<<"#", " ", "h">>, <<"-", " ", "a">>, <<"*", "a", "*">>, <<"[", "a", "]", "(", "b", ")">>, <<"$", "x", "$">>, <<"a">>}

\* the document: the opening fence line with its language tag, then the lines
OpenFence(lang, body) == Fence \o lang \o <<"\n">> \o body

InitOpenFence ==
    CallWith({OpenFence(lang, body) :
                  lang \in {<<>>, <<"j", "s">>},
                  body \in Documents(OpenFenceLines, MaxOpenFenceLines) \ {<<>>}},
             {"identity"})

SpecOpenFence == InitOpenFence /\ [][Next]_vars

\* the text after the opening fence line of the document OpenFence(lang, body)
OpenFenceBody(s) == Sub(s, FirstIn(s, 4, {"\n"}) + 1, Len(s))

\* what the heading, list, emphasis, link and math transforms write
TransformTags == {<<"<", "h", "1", ">">>, <<"<", "u", "l", ">">>, <<"<", "e", "m", ">">>, <<"<", "a", " ">>, <<"m", "a", "t", "h", "-", "i", "n", "l", "i", "n", "e">>}

\* C20: when the opening fence line has no closing fence, all the text from the
\* fence to the end of the input is taken as the code block, and no heading,
\* list, emphasis, link or math transform is applied to it
C20_OpenFenceConsumes ==
    pc = "done" =>
        /\ Len(codeBlocks) = 1
        /\ Contains(html, EscapeHtml(TrimEnd(OpenFenceBody(md))) \o <<"<", "/", "c", "o", "d", "e", ">", "<", "/", "p", "r", "e", ">">>)
        /\ \A t \in TransformTags : ~Contains(html, t)

-----------------------------------------------------------------------------
(* parse() on text whose dollar signs open math spans that are never closed. *)

MaxOpenMathPieces == 4

OpenMathPieces == {<<"$">>, <<"$", "$">>, <<"x">>, <<"\n">>, <<"*", "x", "*">>, <<"<">>}

\* the dollar signs of a line stand together, one or two of them: a $ has no
\* closing $ on its line
OneOpener(line) ==
    \/ ~Contains(line, <<"$">>)
    \/ /\ Count(line, <<"$">>) <= 2
       /\ \A a, b \in 1..Len(line) : line[a] = "$" /\ line[b] = "$" => b - a \in {-1, 0, 1}

\* every $ of s opens a span that is not closed: one opener a line, and at most
\* one $$ in the document
Unterminated(s) ==
    /\ Contains(s, <<"$">>)
    /\ \A k \in 1..Len(Split(s, <<"\n">>)) : OneOpener(Split(s, <<"\n">>)[k])
    /\ Count(s, <<"$", "$">>) <= 1

InitOpenMath ==
    CallWith({s \in Texts(OpenMathPieces, MaxOpenMathPieces) : Unterminated(s)}, {"identity"})

SpecOpenMath == InitOpenMath /\ [][Next]_vars

\* s with every $ written as the letter D, and back
DollarAsLetter(s) == ReplaceAll(s, <<"$">>, <<"D">>)

LetterAsDollar(s) == ReplaceAll(s, <<"D">>, <<"$">>)

-----------------------------------------------------------------------------
(* parse() on a document that is one inline code span or one terminated     *)
(* fenced code block whose content holds Markdown and HTML characters.      *)

MaxCodePieces == 3

CodePieces == {<<"*", "a", "*">>, <<"&">>, <<"<">>, <<"$">>, <<"#", " ", "a">>, <<"\n">>}

InlineCodeOf(c) == <<Backtick>> \o c \o <<Backtick>>

InitCode ==
    CallWith({InlineCodeOf(c) : c \in {t \in Texts(CodePieces, MaxCodePieces) :
                                           t # <<>> /\ ~Contains(t, <<"\n">>)}}
             \cup {FencedBlock(lang, body) :
                       lang \in {<<>>, <<"j", "s">>}, body \in Texts(CodePieces, MaxCodePieces)},
             {"identity"})

SpecCode == InitCode /\ [][Next]_vars

IsFenced(s) == StartsWithAt(s, 1, Fence)

\* the code content of the document
CodeContent(s) == IF IsFenced(s) THEN TrimEnd(FenceBody(s)) ELSE Sub(s, 2, Len(s) - 1)

\* the element the restoration writes around the content
CodeOpen(s) ==
    IF ~IsFenced(s) THEN <<"<", "c", "o", "d", "e", ">">>
    ELSE IF FenceLang(s) = <<>> THEN <<"<", "p", "r", "e", ">", "<", "c", "o", "d", "e", ">">>
    ELSE <<"<", "p", "r", "e", ">", "<", "c", "o", "d", "e", " ", "c", "l", "a", "s", "s", "=", "\"", "l", "a", "n", "g", "u", "a", "g", "e", "-">> \o FenceLang(s) \o <<"\"", ">">>

CodeClose(s) == IF IsFenced(s) THEN <<"<", "/", "c", "o", "d", "e", ">", "<", "/", "p", "r", "e", ">">> ELSE <<"<", "/", "c", "o", "d", "e", ">">>

\* the statements of phases 2 to 4, and the one that follows them
Phases2to4 ==
    {"escape", "blockquotes", "tables", "tablesLoop", "horizontalRules", "headings",
     "lists", "paragraphs", "images", "links", "boldItalic", "strikethrough",
     "lineBreaks", "restoreInlineHtml"}

\* C22: extraction precedes escaping and every Markdown phase: while phases 2 to 4
\* run the code content is out of the text (only its placeholder is there), so no
\* block or inline transform makes a tag from it, and the output is the code
\* element around the content HTML-escaped exactly once and otherwise unchanged
C22_CodeEscapedOnce ==
    /\ pc \in Phases2to4 =>
           html = Placeholder(IF IsFenced(md) THEN CODEBLOCK ELSE INLINECODE, 0)
    /\ pc = "done" => html = CodeOpen(md) \o EscapeHtml(CodeContent(md)) \o CodeClose(md)

-----------------------------------------------------------------------------
(* parse() on one table: a header, a separator with colons, data rows.      *)

MaxAlignRows == 2

AlignHeaders == {<<"|", "a", "|", "b", "|">>, <<"|", "a", "|", "b", "|", "c", "|">>}

AlignSeparators == {<<"|", ":", "-", ":", "|", "-", "-", ":", "|">>, <<"|", ":", "-", "-", "|", "-", "-", "-", "|">>, <<"|", "-", ":", "|">>, <<"|", " ", ":", "-", ":", " ", "|", ":", ":", "|">>}

AlignRows == {<<"|", "c", "|", "d", "|">>, <<"|", "c", "|", "d", "|", "e", "|">>, <<"|", "-", "-", "|", ":", "-", ":", "|">>}

\* the documents: header, separator, up to MaxAlignRows rows, and a line that is
\* not pipe-delimited or nothing after them
InitAlign ==
    CallWith({Join(<<h, s>> \o rows \o last, <<"\n">>) :
                  h \in AlignHeaders, s \in AlignSeparators,
                  rows \in UNION {[1..k -> AlignRows] : k \in 0..MaxAlignRows},
                  last \in {<<>>, <<<<"x">>>>}},
             {"identity"})

SpecAlign == InitAlign /\ [][Next]_vars

\* the cells of a pipe-delimited line, as written
CellsOf(line) == Split(Sub(line, 2, Len(line) - 1), <<"|">>)

\* a separator cell read as the claim reads it: a run of dashes with a colon on
\* both sides, on the right, on the left, or anything else
ColonStyle(c) ==
    LET left == Len(c) >= 1 /\ c[1] = ":"
        right == Len(c) >= 1 /\ c[Len(c)] = ":"
        core == Sub(c, IF left THEN 2 ELSE 1, IF right THEN Len(c) - 1 ELSE Len(c))
        dashes == core # <<>> /\ \A k \in 1..Len(core) : core[k] = "-"
    IN  IF ~dashes THEN <<>>
        ELSE IF left /\ right THEN <<"c", "e", "n", "t", "e", "r">>
        ELSE IF right THEN <<"r", "i", "g", "h", "t">>
        ELSE IF left THEN <<"l", "e", "f", "t">>
        ELSE <<>>

\* the k-th cell of a row under the separator line sep
StyledCell(tag, cells, k, sep) ==
    <<"<">> \o tag
    \o (IF k <= Len(CellsOf(sep)) /\ ColonStyle(Trim(CellsOf(sep)[k])) # <<>>
        THEN <<" ", "s", "t", "y", "l", "e", "=", "\"", "t", "e", "x", "t", "-", "a", "l", "i", "g", "n", ":">> \o ColonStyle(Trim(CellsOf(sep)[k])) \o <<"\"">>
        ELSE <<>>)
    \o <<">">> \o Trim(cells[k]) \o <<"<", "/">> \o tag \o <<">">>

StyledRow(tag, line, sep) ==
    Concat([k \in 1..Len(CellsOf(line)) |-> StyledCell(tag, CellsOf(line), k, sep)])

\* the pipe-delimited lines that follow the separator without a gap
RowsOf(ls) == Sub(ls, 3, IF ls[Len(ls)] = <<"x">> THEN Len(ls) - 1 ELSE Len(ls))

\* the one table of the document with the lines ls
StyledTable(ls) ==
    <<"<", "t", "a", "b", "l", "e", ">", "<", "t", "h", "e", "a", "d", ">", "<", "t", "r", ">">> \o StyledRow(<<"t", "h">>, ls[1], ls[2]) \o <<"<", "/", "t", "r", ">", "<", "/", "t", "h", "e", "a", "d", ">", "<", "t", "b", "o", "d", "y", ">">>
    \o Concat([k \in 1..Len(RowsOf(ls)) |->
                  <<"<", "t", "r", ">">> \o StyledRow(<<"t", "d">>, RowsOf(ls)[k], ls[2]) \o <<"<", "/", "t", "r", ">">>])
    \o <<"<", "/", "t", "b", "o", "d", "y", ">", "<", "/", "t", "a", "b", "l", "e", ">">>
    \o (IF ls[Len(ls)] = <<"x">> THEN <<"\n", "x">> ELSE <<>>)

\* C23: in a recognized table the k-th cell of the header row and of every data
\* row carries text-align according to the k-th separator cell only (:--: center,
\* --: right, :-- left, anything else no style), a cell beyond the separator's
\* cell count carries no style, and all contiguous pipe-delimited lines after the
\* separator are rows of the one table
C23_ColumnAlignment ==
    pc = "done" =>
        /\ html = StyledTable(Split(md, <<"\n">>))
        /\ Count(html, <<"<", "t", "a", "b", "l", "e", ">">>) = 1
        /\ Count(html, <<"<", "t", "r", ">">>) = 1 + Len(RowsOf(Split(md, <<"\n">>)))

\* three header cells over two separator cells, and a row that looks like a
\* separator
C23_Witness ==
    /\ pc = "done"
    /\ md = <<"|", "a", "|", "b", "|", "c", "|", "\n", "|", ":", "-", ":", "|", "-", "-", ":", "|", "\n", "|", "c", "|", "d", "|", "e", "|", "\n", "|", "-", "-", "|", ":", "-", ":", "|">>
    /\ Contains(html, <<"<", "t", "h", " ", "s", "t", "y", "l", "e", "=", "\"", "t", "e", "x", "t", "-", "a", "l", "i", "g", "n", ":", "c", "e", "n", "t", "e", "r", "\"", ">", "a", "<", "/", "t", "h", ">", "<", "t", "h", " ", "s", "t", "y", "l", "e", "=", "\"", "t", "e", "x", "t", "-", "a", "l", "i", "g", "n", ":", "r", "i", "g", "h", "t", "\"", ">", "b", "<", "/", "t", "h", ">", "<", "t", "h", ">", "c", "<", "/", "t", "h", ">">>)
    /\ Contains(html, <<"<", "t", "r", ">", "<", "t", "d", " ", "s", "t", "y", "l", "e", "=", "\"", "t", "e", "x", "t", "-", "a", "l", "i", "g", "n", ":", "c", "e", "n", "t", "e", "r", "\"", ">", "-", "-", "<", "/", "t", "d", ">", "<", "t", "d", " ", "s", "t", "y", "l", "e", "=", "\"", "t", "e", "x", "t", "-", "a", "l", "i", "g", "n", ":", "r", "i", "g", "h", "t", "\"", ">", ":", "-", ":", "<", "/", "t", "d", ">", "<", "/", "t", "r", ">">>)

-----------------------------------------------------------------------------
(* parse() on lines that start with # characters.                           *)

MaxHeadingLines == 3

HeadingLines == {<<"#">>, <<"#", " ">>, <<"#", " ", "a">>, <<"#", "#", " ", "b">>, <<"#", "#", "#", "#", "#", "#", "#", " ", "c">>, <<"a">>}

InitHeading == CallWith(Documents(HeadingLines, MaxHeadingLines), {"identity"})

SpecHeading == InitHeading /\ [][Next]_vars

\* the number of # the line starts with
LeadingHashes(line) == FirstNotIn(line, 1, {"#"}) - 1

\* the line is a heading line: 1 to 6 #, then white space, then text on the line
IsHeadingLine(line) ==
    /\ LeadingHashes(line) \in 1..6
    /\ LeadingHashes(line) < Len(line)
    /\ line[LeadingHashes(line) + 1] \in {" ", "\t"}
    /\ FirstNotIn(line, LeadingHashes(line) + 1, {" ", "\t"}) <= Len(line)

\* the element the claim gives for a heading line
HeadingOf(line) ==
    <<"<", "h">> \o Decimal(LeadingHashes(line)) \o <<">">>
    \o Sub(line, FirstNotIn(line, LeadingHashes(line) + 1, {" ", "\t"}), Len(line))
    \o <<"<", "/", "h">> \o Decimal(LeadingHashes(line)) \o <<">">>

\* C24: each heading element comes from exactly one source line: a line of N #
\* (1 to 6), white space and text on that same line becomes <hN>text</hN>; a line
\* of seven or more #, or of # characters only, becomes no heading; a heading does
\* not take its text from a following line and no heading is inside another
C24_HeadingFromOneLine ==
    pc = "done" =>
        /\ \A k \in 1..Len(Split(md, <<"\n">>)) :
               IsHeadingLine(Split(md, <<"\n">>)[k]) =>
                   Contains(html, HeadingOf(Split(md, <<"\n">>)[k]))
        /\ Count(html, <<"<", "h">>) =
               Cardinality({k \in 1..Len(Split(md, <<"\n">>)) :
                                IsHeadingLine(Split(md, <<"\n">>)[k])})

-----------------------------------------------------------------------------
(* parse() on horizontal rules between text and blank lines.                *)

MaxRuleLines == 4

RuleLines == {<<"-", "-", "-">>, <<"*", "*", "*">>, <<"_", "_", "_", " ", " ">>, <<"a">>, <<"b">>, <<>>}

InitRule == CallWith(Documents(RuleLines, MaxRuleLines), {"identity"})

SpecRule == InitRule /\ [][Next]_vars

\* the line consists of ---, *** or ___ alone, plus trailing spaces
IsRuleLine(line) ==
    /\ \E r \in {<<"-", "-", "-">>, <<"*", "*", "*">>, <<"_", "_", "_">>} : StartsWithAt(line, 1, r)
    /\ \A k \in 4..Len(line) : line[k] \in {" ", "\t"}

\* s with the characters of every rule line replaced by <hr>, the rest kept
RulesOnly(s) ==
    Join([k \in 1..Len(Split(s, <<"\n">>)) |->
             IF IsRuleLine(Split(s, <<"\n">>)[k]) THEN <<"<", "h", "r", ">">> ELSE Split(s, <<"\n">>)[k]],
         <<"\n">>)

\* a rule line, a blank line and the text line b follow one another in s
TextAfterRule(s) ==
    \E k \in 1..(Len(Split(s, <<"\n">>)) - 2) :
        /\ IsRuleLine(Split(s, <<"\n">>)[k])
        /\ Split(s, <<"\n">>)[k + 1] = <<>>
        /\ Split(s, <<"\n">>)[k + 2] = <<"b">>

\* C25: the horizontal-rule transform replaces only the characters of a line
\* that consists of ---, *** or ___ alone (plus trailing spaces) by <hr> and
\* leaves every other character unchanged, the line breaks after the rule
\* included; so text that a blank line separates from the rule is a paragraph of
\* its own, wrapped in <p>
C25_RuleReplacesOnlyItsLine ==
    [][/\ pc = "horizontalRules" => html' = RulesOnly(html)
       /\ pc' = "done" /\ TextAfterRule(md) => Contains(html', <<"<", "p", ">", "b">>)]_vars

-----------------------------------------------------------------------------
(* parse() on runs of lines that start with >.                              *)

MaxQuoteLines == 3

QuoteLines == {<<">", " ", "a">>, <<">", "b">>, <<">", " ", "#", " ", "c">>, <<">", " ", "-", " ", "d">>, <<">", " ", "1", ".", " ", "e">>, <<"f">>}

InitQuoteRun == CallWith(Documents(QuoteLines, MaxQuoteLines), {"identity"})

SpecQuoteRun == InitQuoteRun /\ [][Next]_vars

IsQuoteLine(line) == line # <<>> /\ line[1] = ">"

\* the line without its > and without the one white space after it
Unquoted(line) ==
    IF Len(line) >= 2 /\ line[2] = " " THEN Sub(line, 3, Len(line)) ELSE Sub(line, 2, Len(line))

\* the maximal runs of > lines of ls, each as <<first, last>>
QuoteRuns(ls) ==
    {<<a, b>> \in (1..Len(ls)) \X (1..Len(ls)) :
        /\ a <= b
        /\ \A k \in a..b : IsQuoteLine(ls[k])
        /\ a = 1 \/ ~IsQuoteLine(ls[a - 1])
        /\ b = Len(ls) \/ ~IsQuoteLine(ls[b + 1])}

\* the element the claim gives for the run a..b of ls
BlockquoteOf(ls, a, b) ==
    <<"<", "b", "l", "o", "c", "k", "q", "u", "o", "t", "e", ">", "<", "p", ">">>
    \o Join([k \in 1..(b - a + 1) |-> Unquoted(ls[a + k - 1])], <<"\n">>)
    \o <<"<", "/", "p", ">", "<", "/", "b", "l", "o", "c", "k", "q", "u", "o", "t", "e", ">">>

\* C26: every maximal run of consecutive > lines yields exactly one blockquote
\* element in the output, <blockquote><p> + the lines without their prefix +
\* </p></blockquote>, and the later block phases keep it intact, also when a line
\* of the run other than the first starts with #, -, *, + or N.
C26_BlockquoteIntact ==
    pc = "done" =>
        /\ \A r \in QuoteRuns(Split(md, <<"\n">>)) :
               Contains(html, BlockquoteOf(Split(md, <<"\n">>), r[1], r[2]))
        /\ Count(html, <<"<", "b", "l", "o", "c", "k", "q", "u", "o", "t", "e", ">">>) = Cardinality(QuoteRuns(Split(md, <<"\n">>)))
        /\ Count(html, <<"<", "/", "p", ">", "<", "/", "b", "l", "o", "c", "k", "q", "u", "o", "t", "e", ">">>) = Cardinality(QuoteRuns(Split(md, <<"\n">>)))

-----------------------------------------------------------------------------
(* editor.js: the textarea, the snapshot timer and the undo and redo stacks. *)
(* Line numbers, the unsaved dot and the auto-save debounce are display and  *)
(* file state that no step below reads.                                      *)

Min(a, b) == IF a < b THEN a ELSE b

\* if (this.undoStack.length > 200) this.undoStack.shift()
UndoLimit == 200

Capped(stack) == IF Len(stack) > UndoLimit THEN Tail(stack) ELSE stack

Snapshot(v) == [value |-> v, selectionStart |-> selectionStart, selectionEnd |-> selectionEnd]

Stacks == [undoStack |-> undoStack, redoStack |-> redoStack, lastSnapshot |-> lastSnapshot]

\* _pushSnapshot: nothing when the top of the undo stack holds the current text,
\* else the last snapshot is pushed and the current text becomes the last snapshot
PushSnapshot ==
    IF Len(undoStack) > 0 /\ undoStack[Len(undoStack)].value = value
    THEN Stacks
    ELSE [undoStack |-> Capped(Append(undoStack, Snapshot(lastSnapshot))),
          redoStack |-> <<>>,
          lastSnapshot |-> value]

\* _takeSnapshotIfNeeded
TakeSnapshotIfNeeded == IF value # lastSnapshot THEN PushSnapshot ELSE Stacks

\* _pushUndoBeforeAction followed by the assignment of the new text to _lastSnapshot
PushUndoBeforeAction(newValue) ==
    [undoStack |-> Capped(Append(undoStack, Snapshot(value))),
     redoStack |-> <<>>,
     lastSnapshot |-> newValue]

SetStacks(st) ==
    /\ undoStack' = st.undoStack
    /\ redoStack' = st.redoStack
    /\ lastSnapshot' = st.lastSnapshot

\* textarea.value = v; selectionStart = s; selectionEnd = e: the textarea keeps
\* both offsets within the text and the start at or before the end
SetSelection(v, s, e) ==
    /\ selectionEnd' = Min(e, Len(v))
    /\ selectionStart' = Min(Min(s, Len(v)), Min(e, Len(v)))

\* eventBus.emit('editor:input', text): Preview.render
EmitInput(text) == Render(text)

\* _onInput: the snapshot is scheduled and the preview is updated
OnInput(text) == snapshotTimer' = TRUE /\ EmitInput(text)

\* the user edits the textarea: the text becomes v with the caret at c, and the
\* input event runs _onInput and the listener of the find bar
TypeText(v, c) ==
    /\ v # value
    /\ value' = v
    /\ selectionStart' = c /\ selectionEnd' = c
    /\ OnInput(v)
    /\ searchTimer' = IF isOpen /\ query # <<>> THEN TRUE ELSE searchTimer
    /\ UNCHANGED <<undoStack, redoStack, lastSnapshot>>
    /\ UNCHANGED <<isOpen, query, replacement, matchCase, wholeWord, useRegex, matches,
                   currentIdx>>

\* the callback of setTimeout in _scheduleSnapshot
SnapshotTimeout ==
    /\ snapshotTimer
    /\ snapshotTimer' = FALSE
    /\ SetStacks(TakeSnapshotIfNeeded)
    /\ UNCHANGED <<value, selectionStart, selectionEnd, finder, parser, explorer>>
    /\ UNCHANGED <<currentMd, container, mermaidCache, mermaidTimer, renders>>

\* the focus event of the textarea
Focus ==
    /\ SetStacks(TakeSnapshotIfNeeded)
    /\ UNCHANGED <<value, selectionStart, selectionEnd, snapshotTimer, finder, parser, explorer>>
    /\ UNCHANGED <<currentMd, container, mermaidCache, mermaidTimer, renders>>

\* undo(): the pending snapshot is flushed, the current text goes on the redo
\* stack and the top of the undo stack becomes the text
Undo ==
    /\ snapshotTimer' = FALSE
    /\ IF TakeSnapshotIfNeeded.undoStack = <<>>
       THEN /\ SetStacks(TakeSnapshotIfNeeded)
            /\ UNCHANGED <<value, selectionStart, selectionEnd, parser, explorer>>
            /\ UNCHANGED <<currentMd, container, mermaidCache, mermaidTimer, renders>>
       ELSE LET st == TakeSnapshotIfNeeded
                state == st.undoStack[Len(st.undoStack)]
            IN  /\ redoStack' = Append(st.redoStack, Snapshot(value))
                /\ undoStack' = SubSeq(st.undoStack, 1, Len(st.undoStack) - 1)
                /\ value' = state.value
                /\ SetSelection(state.value, state.selectionStart, state.selectionEnd)
                /\ lastSnapshot' = state.value
                /\ EmitInput(state.value)
    /\ UNCHANGED finder

\* redo()
Redo ==
    /\ redoStack # <<>>
    /\ undoStack' = Append(undoStack, Snapshot(value))
    /\ redoStack' = SubSeq(redoStack, 1, Len(redoStack) - 1)
    /\ value' = redoStack[Len(redoStack)].value
    /\ SetSelection(redoStack[Len(redoStack)].value,
                    redoStack[Len(redoStack)].selectionStart,
                    redoStack[Len(redoStack)].selectionEnd)
    /\ lastSnapshot' = redoStack[Len(redoStack)].value
    /\ EmitInput(redoStack[Len(redoStack)].value)
    /\ UNCHANGED <<snapshotTimer, finder>>

\* val.substring(a, b) with 0-based offsets: both are kept within the text and
\* swapped when a > b
Substring(val, a, b) ==
    SubSeq(val, Min(Min(a, b), Len(val)) + 1, Min(IF a > b THEN a ELSE b, Len(val)))

\* insertAtCursor(before, after): a toolbar button or Ctrl+B, Ctrl+I, Ctrl+K
InsertAtCursor(before, after) ==
    LET selected == Substring(value, selectionStart, selectionEnd)
        newValue == Substring(value, 0, selectionStart) \o before \o selected \o after
                    \o Substring(value, selectionEnd, Len(value))
    IN  /\ SetStacks(PushUndoBeforeAction(newValue))
        /\ value' = newValue
        /\ selectionStart' = selectionStart + Len(before)
        /\ selectionEnd' = selectionStart + Len(before) + Len(selected)
        /\ OnInput(newValue)
        /\ UNCHANGED finder

MaxUndo == 2

MaxTextLen == 3

EditorTexts == {<<>>, <<"a">>, <<"a", "b">>}

\* what the user does in the editor, the text and the undo stack kept small
UserTypes ==
    /\ Len(undoStack) < MaxUndo
    /\ \E v \in EditorTexts : \E c \in {0, Len(v)} : TypeText(v, c)

UserInserts ==
    /\ Len(undoStack) < MaxUndo
    /\ Len(value) + 2 <= MaxTextLen
    /\ InsertAtCursor(<<"*">>, <<"*">>)

NextEditor ==
    \/ UserTypes
    \/ UserInserts
    \/ SnapshotTimeout
    \/ Focus
    \/ Undo
    \/ Redo
    \/ MermaidTimeout("svg") /\ UNCHANGED <<editor, finder>>

InitEditor == CallWith({<<>>}, {"identity"})

SpecEditor == InitEditor /\ [][NextEditor]_vars

\* C27: undo reverts the last change: when the text B differs from the content
\* A at the last snapshot, undo() sets the text to A and leaves B on top of the
\* redo stack, also when B is the value on top of the undo stack; and redo()
\* sets the text to the value on top of the redo stack, so the redo() that
\* follows the undo() sets the text back to B
C27_UndoRevertsLastChange ==
    [][/\ Undo /\ value # lastSnapshot =>
              /\ value' = lastSnapshot
              /\ redoStack' # <<>> /\ redoStack'[Len(redoStack')].value = value
       /\ Redo => value' = redoStack[Len(redoStack)].value]_vars

-----------------------------------------------------------------------------
(* findreplace.js: the find bar on the editor's textarea.  The overlay, the  *)
(* count label and the scroll position are display state no step reads.     *)

\* the expression _search builds from the query.  A pattern is a sequence of
\* atoms, a character or a character followed by *; valid is FALSE when new
\* RegExp throws.  Without useRegex every character of the query is escaped and
\* stands for itself, and wholeWord puts \b on both sides
RegexValid(q) ==
    /\ \A j \in 1..Len(q) : q[j] \notin {"(", ")", "[", "+", "?", "\\"}
    /\ \A j \in 1..Len(q) : q[j] = "*" => j > 1 /\ q[j - 1] # "*"

Pattern(q, flags) ==
    IF flags.useRegex
    THEN [valid |-> RegexValid(q), fold |-> ~flags.matchCase,
          atoms |-> SelectSeq([j \in 1..Len(q) |->
                                  [ch |-> q[j], star |-> j < Len(q) /\ q[j + 1] = "*"]],
                              LAMBDA a : a.ch # "*"),
          word |-> FALSE]
    ELSE [valid |-> TRUE, fold |-> ~flags.matchCase,
          atoms |-> [j \in 1..Len(q) |-> [ch |-> q[j], star |-> FALSE]],
          word |-> flags.wholeWord]

\* the i flag is set unless matchCase
SameChar(pat, a, b) == IF pat.fold THEN ToLower(a) = ToLower(b) ELSE a = b

\* \b at the 0-based offset p of text
WordBoundary(text, p) ==
    (p > 0 /\ text[p] \in WordChar) # (p < Len(text) /\ text[p + 1] \in WordChar)

\* the atoms from the k-th on matched at offset p: the offset where the match
\* ends, -1 when there is none; a starred atom takes as many characters as it can
\* and gives them back one by one
RECURSIVE MatchFrom(_, _, _, _)
MatchFrom(text, p, pat, k) ==
    IF k > Len(pat.atoms)
    THEN IF pat.word /\ ~WordBoundary(text, p) THEN -1 ELSE p
    ELSE IF ~pat.atoms[k].star
    THEN IF p < Len(text) /\ SameChar(pat, text[p + 1], pat.atoms[k].ch)
         THEN MatchFrom(text, p + 1, pat, k + 1)
         ELSE -1
    ELSE LET fits == {n \in 0..(Len(text) - p) :
                         /\ \A m \in 1..n : SameChar(pat, text[p + m], pat.atoms[k].ch)
                         /\ MatchFrom(text, p + n, pat, k + 1) # -1}
         IN  IF fits = {} THEN -1
             ELSE MatchFrom(text, p + (CHOOSE n \in fits : \A m \in fits : m <= n), pat, k + 1)

MatchAt(text, p, pat) ==
    IF pat.word /\ ~WordBoundary(text, p) THEN -1 ELSE MatchFrom(text, p, pat, 1)

\* for every offset of the text where a match of the pattern starting there ends
Ends(text, pat) == [p \in 0..Len(text) |-> MatchAt(text, p, pat)]

\* if (this.matches.length > 10000) break
MatchCap == 10000

\* pattern.exec with lastIndex = from: the offset of the first match, -1 for null
Exec(ends, n, from) ==
    IF from > n \/ \A j \in from..n : ends[j] = -1 THEN -1
    ELSE CHOOSE p \in from..n : ends[p] # -1 /\ \A m \in from..(p - 1) : ends[m] = -1

\* the while loop of _search over pattern.exec(text), m.index being at: an
\* empty match moves lastIndex by one, another is pushed
RECURSIVE ExecLoop(_, _, _, _)
ExecLoop(ends, n, at, found) ==
    IF at = -1 THEN found
    ELSE IF ends[at] = at THEN ExecLoop(ends, n, Exec(ends, n, at + 1), found)
    ELSE IF Len(found) + 1 > MatchCap
    THEN Append(found, [start |-> at, end |-> ends[at]])
    ELSE ExecLoop(ends, n, Exec(ends, n, ends[at]),
                  Append(found, [start |-> at, end |-> ends[at]]))

Matches(ends, n) == ExecLoop(ends, n, Exec(ends, n, 0), <<>>)

FoundBy(pat, text) == IF ~pat.valid THEN <<>> ELSE Matches(Ends(text, pat), Len(text))

Found(q, text, flags) == IF q = <<>> THEN <<>> ELSE FoundBy(Pattern(q, flags), text)

Flags == [matchCase |-> matchCase, wholeWord |-> wholeWord, useRegex |-> useRegex]

\* the index _search makes current: the first match at or after the cursor
Nearest(found, cursor) ==
    IF found = <<>> THEN -1
    ELSE IF \E n \in 1..Len(found) : found[n].start >= cursor
    THEN (CHOOSE n \in 1..Len(found) :
              /\ found[n].start >= cursor
              /\ \A m \in 1..(n - 1) : found[m].start < cursor) - 1
    ELSE 0

\* _scrollToCurrent with the current index idx: the textarea selects that
\* match, and keeps the selection <<s, e>> when there is no such match
Selected(found, idx, s, e) ==
    [matches |-> found, currentIdx |-> idx,
     selectionStart |-> IF idx < 0 \/ idx >= Len(found) THEN s ELSE found[idx + 1].start,
     selectionEnd |-> IF idx < 0 \/ idx >= Len(found) THEN e ELSE found[idx + 1].end]

Located(found, s, e) == Selected(found, Nearest(found, s), s, e)

\* _search on the text with the selection <<s, e>>: the matches, the current
\* index, and the selection _scrollToCurrent leaves
SearchWith(q, text, s, e, flags) == Located(Found(q, text, flags), s, e)

Search(q, text, s, e) == SearchWith(q, text, s, e, Flags)

\* the fields _search and _scrollToCurrent assign
Searched(r) ==
    /\ matches' = r.matches
    /\ currentIdx' = r.currentIdx
    /\ selectionStart' = r.selectionStart
    /\ selectionEnd' = r.selectionEnd

preview == <<currentMd, container, mermaidCache, mermaidTimer, renders>>

\* open(): the selection, when there is one on a single line, becomes the query
Prefilled(sel) ==
    IF sel # <<>> /\ Len(sel) < 200 /\ ~Contains(sel, <<"\n">>) THEN sel ELSE query

OpenWith(q) ==
    /\ isOpen' = TRUE
    /\ query' = q
    /\ IF q # <<>> THEN Searched(Search(q, value, selectionStart, selectionEnd))
       ELSE UNCHANGED <<matches, currentIdx, selectionStart, selectionEnd>>
    /\ UNCHANGED <<replacement, matchCase, wholeWord, useRegex, searchTimer>>
    /\ UNCHANGED <<value, undoStack, redoStack, lastSnapshot, snapshotTimer>>
    /\ UNCHANGED <<parser, explorer, preview>>

OpenBar == OpenWith(Prefilled(Substring(value, selectionStart, selectionEnd)))

\* close(): the focus goes back to the textarea, whose focus listener runs
CloseBar ==
    /\ isOpen
    /\ isOpen' = FALSE
    /\ matches' = <<>>
    /\ currentIdx' = -1
    /\ SetStacks(TakeSnapshotIfNeeded)
    /\ UNCHANGED <<query, replacement, matchCase, wholeWord, useRegex, searchTimer>>
    /\ UNCHANGED <<value, selectionStart, selectionEnd, snapshotTimer, parser, explorer, preview>>

\* the input listener of the find field
FindInput(q) ==
    /\ isOpen
    /\ query' = q
    /\ searchTimer' = TRUE
    /\ UNCHANGED <<isOpen, replacement, matchCase, wholeWord, useRegex, matches, currentIdx>>
    /\ UNCHANGED <<editor, parser, explorer, preview>>

\* the input listener of the replace field
ReplaceInput(r) ==
    /\ isOpen
    /\ replacement' = r
    /\ UNCHANGED <<isOpen, query, matchCase, wholeWord, useRegex, matches, currentIdx,
                   searchTimer>>
    /\ UNCHANGED <<editor, parser, explorer, preview>>

\* the index next() and prev() move to, n being matches.length
NextIdx(idx, n) == (idx + 1) % n

PrevIdx(idx, n) == (idx - 1 + n) % n

\* next() or prev(), then _scrollToCurrent: the textarea selects the current match
MoveTo(idx) ==
    /\ isOpen
    /\ matches # <<>>
    /\ currentIdx' = idx
    /\ IF idx < 0 \/ idx >= Len(matches)
       THEN UNCHANGED <<selectionStart, selectionEnd>>
       ELSE SetSelection(value, matches[idx + 1].start, matches[idx + 1].end)
    /\ UNCHANGED <<isOpen, query, replacement, matchCase, wholeWord, useRegex, matches,
                   searchTimer>>
    /\ UNCHANGED <<value, undoStack, redoStack, lastSnapshot, snapshotTimer>>
    /\ UNCHANGED <<parser, explorer, preview>>

FindNext == matches # <<>> /\ MoveTo(NextIdx(currentIdx, Len(matches)))

FindPrev == matches # <<>> /\ MoveTo(PrevIdx(currentIdx, Len(matches)))

\* replace(): the index kept after the new search
KeepPositionUnclamped(oldIdx, n) == oldIdx

KeepPosition(oldIdx, n) == Min(oldIdx, n - 1)

\* the text is assigned, the editor's _onInput runs, and _search runs on the new
\* text with the caret where the assignment left it, at the end when the text changed
AfterAssign(newValue, r) ==
    /\ SetStacks(PushUndoBeforeAction(newValue))
    /\ value' = newValue
    /\ OnInput(newValue)
    /\ Searched(r)
    /\ UNCHANGED <<isOpen, query, replacement, matchCase, wholeWord, useRegex, searchTimer>>

Caret(newValue, s) == IF newValue # value THEN Len(newValue) ELSE s

\* the result of the search in replace() with the index moved to where it was
Kept(r, oldIdx) ==
    IF r.matches = <<>> THEN r
    ELSE Selected(r.matches, KeepPosition(oldIdx, Len(r.matches)),
                  r.selectionStart, r.selectionEnd)

SearchAfter(newValue) ==
    Search(query, newValue, Caret(newValue, selectionStart), Caret(newValue, selectionEnd))

Spliced(val, match) ==
    Substring(val, 0, match.start) \o replacement \o Substring(val, match.end, Len(val))

ReplaceWith(newValue) == AfterAssign(newValue, Kept(SearchAfter(newValue), currentIdx))

\* replace()
ReplaceCurrent ==
    /\ isOpen
    /\ matches # <<>> /\ currentIdx >= 0
    /\ ReplaceWith(Spliced(value, matches[currentIdx + 1]))

\* the for loop of replaceAll over the matches from the k-th on
RECURSIVE ReplacedFrom(_, _, _)
ReplacedFrom(val, k, lastEnd) ==
    IF k > Len(matches) THEN Substring(val, lastEnd, Len(val))
    ELSE Substring(val, lastEnd, matches[k].start) \o replacement
         \o ReplacedFrom(val, k + 1, matches[k].end)

ReplaceAllWith(newValue) == AfterAssign(newValue, SearchAfter(newValue))

\* replaceAll()
ReplaceAllMatches ==
    /\ isOpen
    /\ matches # <<>>
    /\ ReplaceAllWith(ReplacedFrom(value, 1, 0))

\* the callback of setTimeout in _debouncedSearch
SearchTimeout ==
    /\ searchTimer
    /\ searchTimer' = FALSE
    /\ Searched(Search(query, value, selectionStart, selectionEnd))
    /\ UNCHANGED <<isOpen, query, replacement, matchCase, wholeWord, useRegex>>
    /\ UNCHANGED <<value, undoStack, redoStack, lastSnapshot, snapshotTimer>>
    /\ UNCHANGED <<parser, explorer, preview>>

\* the change listeners of the three check boxes
Toggle(box) ==
    /\ isOpen
    /\ matchCase' = IF box = "case" THEN ~matchCase ELSE matchCase
    /\ wholeWord' = IF box = "word" THEN ~wholeWord ELSE wholeWord
    /\ useRegex' = IF box = "regex" THEN ~useRegex ELSE useRegex
    /\ Searched(SearchWith(query, value, selectionStart, selectionEnd,
                           [matchCase |-> IF box = "case" THEN ~matchCase ELSE matchCase,
                            wholeWord |-> IF box = "word" THEN ~wholeWord ELSE wholeWord,
                            useRegex |-> IF box = "regex" THEN ~useRegex ELSE useRegex]))
    /\ UNCHANGED <<isOpen, query, replacement, searchTimer>>
    /\ UNCHANGED <<value, undoStack, redoStack, lastSnapshot, snapshotTimer>>
    /\ UNCHANGED <<parser, explorer, preview>>

\* bounds of the find bar's exploration
MaxFindUndo == 1

FindTexts == {<<"b">>, <<"a", " ", "A", "a">>}

FindQueries == {<<"a">>, <<"a", "*">>, <<"(">>}

FindReplacements == {<<"b">>}

UserFinds == \E q \in FindQueries : FindInput(q)

UserReplacements == \E r \in FindReplacements : ReplaceInput(r)

UserToggles == \E box \in {"case", "word", "regex"} : Toggle(box)

UserEdits ==
    /\ Len(undoStack) + Len(redoStack) < MaxFindUndo
    /\ \E v \in FindTexts : TypeText(v, Len(v))

UserReplaces ==
    /\ Len(undoStack) + Len(redoStack) < MaxFindUndo
    /\ (ReplaceCurrent \/ ReplaceAllMatches)

NextFind ==
    \/ UserEdits
    \/ OpenBar
    \/ CloseBar
    \/ UserFinds
    \/ UserReplacements
    \/ UserToggles
    \/ FindNext
    \/ FindPrev
    \/ UserReplaces
    \/ SearchTimeout
    \/ Undo

InitFind == CallWith({<<>>}, {"identity"})

SpecFind == InitFind /\ [][NextFind]_vars

\* C28: when replace() or replaceAll() runs, every offset pair in matches denotes
\* text of the current textarea content that matches the current query: matches
\* is what a search of the current text for the current query finds
C28_MatchesNeverStale ==
    [][ReplaceCurrent \/ ReplaceAllMatches => matches = Found(query, value, Flags)]_vars

\* every range of found is non-empty and ends at or before the start of the next
Disjoint(found) ==
    /\ \A k \in 1..Len(found) : 0 <= found[k].start /\ found[k].start < found[k].end
    /\ \A k \in 1..(Len(found) - 1) : found[k].end <= found[k + 1].start

\* either there is no match and no current index, or the index is one of matches
IndexInRange(found, idx) ==
    \/ found = <<>> /\ idx = -1
    \/ found # <<>> /\ 0 <= idx /\ idx < Len(found)

\* the index after next() called times times from idx, n being matches.length
RECURSIVE NextTimes(_, _, _)
NextTimes(idx, n, times) == IF times = 0 THEN idx ELSE NextTimes(NextIdx(idx, n), n, times - 1)

\* C29: after every operation of the find bar either matches is empty and
\* currentIdx = -1, or 0 <= currentIdx < matches.length; matches never holds an
\* empty or overlapping range; prev() undoes next() and next() undoes prev(),
\* next() from the last match goes to the first and prev() from the first goes
\* to the last, and matches.length calls of next() visit every match and come back
C29_IndexWithinMatches ==
    [][/\ IndexInRange(matches', currentIdx')
       /\ Disjoint(matches')
       /\ FindNext =>
              /\ matches' = matches
              /\ PrevIdx(currentIdx', Len(matches)) = currentIdx
              /\ currentIdx = Len(matches) - 1 => currentIdx' = 0
              /\ {NextTimes(currentIdx, Len(matches), t) : t \in 1..Len(matches)}
                     = 0..(Len(matches) - 1)
              /\ NextTimes(currentIdx, Len(matches), Len(matches)) = currentIdx
       /\ FindPrev =>
              /\ matches' = matches
              /\ NextIdx(currentIdx', Len(matches)) = currentIdx
              /\ currentIdx = 0 => currentIdx' = Len(matches) - 1]_vars

\* replace() has run on the second of three matches and the index stays on the
\* second of the two that are left
C29_Witness ==
    /\ isOpen
    /\ query = <<"a">> /\ replacement = <<"b">>
    /\ value = <<"a", " ", "b", "a">>
    /\ matches = <<[start |-> 0, end |-> 1], [start |-> 3, end |-> 4]>>
    /\ currentIdx = 1
    /\ undoStack # <<>> /\ undoStack[Len(undoStack)].value = <<"a", " ", "A", "a">>

-----------------------------------------------------------------------------
(* pathutils.js: paths of the virtual file system, and the two places that   *)
(* use them, the explorer's Copy Relative Path and the preview's image       *)
(* lookup.                                                                   *)

\* parts.filter(Boolean): the empty strings are dropped
FilterBoolean(parts) == SelectSeq(parts, LAMBDA part : part # <<>>)

\* dirname: filePath.lastIndexOf('/') is LastIn - 1
Dirname(filePath) ==
    IF LastIn(filePath, 1, Len(filePath), {"/"}) - 1 > 0
    THEN Substring(filePath, 0, LastIn(filePath, 1, Len(filePath), {"/"}) - 1)
    ELSE <<>>

\* the for loop of normalizePath over the parts from the k-th on
RECURSIVE ResolveParts(_, _, _)
ResolveParts(parts, k, resolved) ==
    IF k > Len(parts) THEN resolved
    ELSE IF parts[k] = <<".">> \/ parts[k] = <<>> THEN ResolveParts(parts, k + 1, resolved)
    ELSE IF parts[k] = <<".", ".">>
    THEN ResolveParts(parts, k + 1, SubSeq(resolved, 1, Len(resolved) - 1))
    ELSE ResolveParts(parts, k + 1, Append(resolved, parts[k]))

Rooted(resolved) == IF resolved = <<>> THEN <<>> ELSE <<"/">> \o Join(resolved, <<"/">>)

\* normalizePath
NormalizePath(path) ==
    Rooted(ResolveParts(Split(ReplaceAll(path, <<"\\">>, <<"/">>), <<"/">>), 1, <<>>))

\* x || '/'
OrRoot(x) == IF x = <<>> THEN <<"/">> ELSE x

\* resolveRelativeAssetPath
ResolveRelativeAssetPath(currentMdPath, targetPath) ==
    IF targetPath = <<>> THEN targetPath
    ELSE IF targetPath[1] = "/" THEN NormalizePath(targetPath)
    ELSE NormalizePath(Dirname(OrRoot(currentMdPath)) \o <<"/">> \o targetPath)

\* the while loop of computeRelativePath: the value of common when it ends
RECURSIVE CommonPrefixWhole(_, _, _)
CommonPrefixWhole(fromDir, toParts, common) ==
    IF common < Len(fromDir) /\ common < Len(toParts)
       /\ fromDir[common + 1] = toParts[common + 1]
    THEN CommonPrefixWhole(fromDir, toParts, common + 1)
    ELSE common

RECURSIVE CommonPrefix(_, _, _)
CommonPrefix(fromDir, toParts, common) ==
    IF common < Len(fromDir) /\ common < Len(toParts) - 1
       /\ fromDir[common + 1] = toParts[common + 1]
    THEN CommonPrefix(fromDir, toParts, common + 1)
    ELSE common

\* Array(ups).fill('..'), then the join of the up segments and the rest
UpSegments(ups) == [k \in 1..ups |-> <<".", ".">>]

RelativeFrom(ups, remaining) ==
    IF ups = 0 /\ Len(remaining) > 0 THEN <<".", "/">> \o Join(remaining, <<"/">>)
    ELSE Join(UpSegments(ups) \o remaining, <<"/">>)

RelativeBetween(fromDir, toParts, common) ==
    RelativeFrom(Len(fromDir) - common, SubSeq(toParts, common + 1, Len(toParts)))

RelativeOf(fromDir, toParts) ==
    RelativeBetween(fromDir, toParts, CommonPrefix(fromDir, toParts, 0))

\* computeRelativePath
ComputeRelativePath(fromFilePath, toFilePath) ==
    IF fromFilePath = <<>> \/ toFilePath = <<>> THEN toFilePath
    ELSE RelativeOf(FilterBoolean(Split(Dirname(fromFilePath), <<"/">>)),
                    FilterBoolean(Split(toFilePath, <<"/">>)))

\* the workspace makes the file at path the active one
SetActiveFile(path) ==
    /\ activeFilePath' = path
    /\ UNCHANGED <<contextTarget, clipboard, resolvedPath>>
    /\ UNCHANGED <<parser, preview, editor, finder>>

\* _copyRelativePath on the explorer item at path
CopyRelativePath(path) ==
    /\ UNCHANGED <<activeFilePath, resolvedPath>>
    /\ UNCHANGED <<parser, preview, editor, finder>>
    /\ contextTarget' = path
    /\ clipboard' = ComputeRelativePath(OrRoot(activeFilePath), path)

\* _resolveImage(src) for a src that is no URL: the path given to getBlobUrl
ResolveImage(src) ==
    /\ UNCHANGED <<activeFilePath, contextTarget, clipboard>>
    /\ UNCHANGED <<parser, preview, editor, finder>>
    /\ resolvedPath' = ResolveRelativeAssetPath(OrRoot(activeFilePath), src)

\* the paths explored: absolute normalized paths of up to MaxPathDepth segments,
\* written relative targets of up to MaxPathDepth segments, and absolute ones
\* of fewer
MaxPathDepth == 2

SegmentNames == {<<"a">>, <<"b">>}

TargetSegments == {<<".", ".">>, <<"a">>}

SegmentsUpTo(names, depth) == UNION {[1..n -> names] : n \in 1..depth}

Paths == {<<"/">> \o Join(segs, <<"/">>) : segs \in SegmentsUpTo(SegmentNames, MaxPathDepth)}

Targets ==
    {Join(segs, <<"/">>) : segs \in SegmentsUpTo(TargetSegments, MaxPathDepth)}
    \cup {<<"/">> \o Join(segs, <<"/">>) : segs \in SegmentsUpTo(TargetSegments, MaxPathDepth - 1)}

UserOpens == \E path \in Paths : SetActiveFile(path)

UserCopies == \E path \in Paths : CopyRelativePath(path)

PastesCopied == clipboard # <<>> /\ ResolveImage(clipboard)

WritesTarget == \E src \in Targets : ResolveImage(src)

NextPaths ==
    \/ UserOpens
    \/ UserCopies
    \/ PastesCopied
    \/ WritesTarget

InitPaths == CallWith({<<>>}, {"identity"})

SpecPaths == InitPaths /\ [][NextPaths]_vars

\* a path is at or below the root: it is empty (the root) or starts with a
\* slash and has only named segments, none of them empty, . or ..
NamedSegments(parts) == \A k \in 2..Len(parts) : parts[k] \notin {<<>>, <<".">>, <<".", ".">>}

AtOrBelowRoot(path) ==
    \/ path = <<>>
    \/ path[1] = "/" /\ NamedSegments(Split(path, <<"/">>))

\* C30: the relative path copied for an item resolves, from the same active
\* file, to the item's path: resolveRelativeAssetPath(from, computeRelativePath(from,
\* to)) = to for absolute normalized from and to; and whatever the written target,
\* with however many .. segments, the resolved path is at or below the root
C30_RelativeRoundTrip ==
    [][/\ UserCopies =>
              ResolveRelativeAssetPath(OrRoot(activeFilePath), clipboard') = contextTarget'
       /\ AtOrBelowRoot(resolvedPath')]_vars

\* the copied path ../b of /b, taken from /a/b, has been resolved back to /b
C30_Witness ==
    /\ activeFilePath = <<"/", "a", "/", "b">>
    /\ contextTarget = <<"/", "b">>
    /\ clipboard = <<".", ".", "/", "b">>
    /\ resolvedPath = <<"/", "b">>

====
